---- MODULE Spec2Model ----
(***************************************************************************)
(* Checkout totals, storage and field validation of the Aotearoa Adventure *)
(* Gear front end (common.js, cart.js, shipping.js, validation.js,         *)
(* payment.js, home.js).                                                   *)
(*                                                                         *)
(* Text is a sequence of one-character strings.                            *)
(* A money amount is an integer number of units of 1/600 dollar (a cent is *)
(* 6 units), so that subtotal * 13/600 is exact for every whole-dollar     *)
(* subtotal; the prices and placeholder texts drawn are whole dollars.     *)
(* The code computes in IEEE doubles; the model computes the same          *)
(* expressions in exact arithmetic.                                        *)
(***************************************************************************)
EXTENDS Integers, Sequences, FiniteSets, TLC

VARIABLES
  page,          \* the page loaded in the tab: "none", "cart", "shipping"
  localStorage,  \* key -> stored text
  cartPrices,    \* cart.html: data-price attribute of each [data-cart-item]
  cartQty,       \* cart page: value of each row's [data-qty] select
  cartView,      \* cart page: text of cartSubtotal/cartShipping/cartTaxes/cartTotal
  placeholder,   \* shipping.html: text of #shipSubtotal in the markup
  shipCostAttr,  \* shipping.html: data-ship-cost attribute of each radio
  storedTotals,  \* initShipping: const storedTotals
  subtotal,      \* initShipping: const subtotal
  checked,       \* shipping page: checked radio of name shippingMethod
  nextDisabled,  \* shipping page: nextRadio.disabled
  nextDimmed,    \* shipping page: nextRadio's label has class opacity-50
  shipView,      \* shipping page: text of shipSubtotal/shipShipping/shipTaxes/shipTotal
  call,          \* a direct call of a utility or validator: the function and its arguments
  ret,           \* how that call completed, once it has
  form,          \* the form of the page shown: "none", "shippingForm", "paymentForm"
  location,      \* window.location of the tab that shows the form
  errorIds,      \* markup: whether the .error-message elements carry an id
  fields,        \* field id -> the input's value and disabled flag and its error annotation
  focus,         \* the field validateForm last gave the focus to
  paymentMethod, \* payment form: value of the checked paymentMethod radio
  cardDimmed,    \* payment form: the card inputs' grid is shown at half opacity
  cardIcon,      \* payment form: text of #cardTypeIcon
  overlay,       \* payment form: a 'Payment Successful!' overlay is in the document
  clock,         \* Date.now(), in units of eight hours
  home           \* tab -> the home page it shows: initCountdownTimer's endTime and display

flowVars == <<page, cartPrices, cartQty, cartView, placeholder, shipCostAttr,
              storedTotals, subtotal, checked, nextDisabled, nextDimmed, shipView>>
vars == <<page, localStorage, cartPrices, cartQty, cartView, placeholder,
          shipCostAttr, storedTotals, subtotal, checked, nextDisabled,
          nextDimmed, shipView, call, ret, form, location, errorIds, fields,
          focus, paymentMethod, cardDimmed, cardIcon, overlay, clock, home>>
homeVars == <<clock, home>>
formVars == <<form, location, errorIds, fields, focus, paymentMethod, cardDimmed,
              cardIcon, overlay>>

\* no form is shown
FormIdle ==
  /\ form = "none"
  /\ location = "none"
  /\ errorIds = FALSE
  /\ fields = <<>>
  /\ focus = "none"
  /\ paymentMethod = "none"
  /\ cardDimmed = FALSE
  /\ cardIcon = ""
  /\ overlay = FALSE

\* no tab shows the home page
HomeIdle ==
  /\ clock = 0
  /\ home = <<>>

(***************************************************************************)
(* Bounds of the model.                                                    *)
(***************************************************************************)
MaxRows == 2
MaxQty == 2

(***************************************************************************)
(* common.js                                                               *)
(***************************************************************************)
STORAGE_KEYS == [totals |-> "cpa_totals", cart |-> "cpa_cart"]

\* TAX_RATE = 13 / 600
TAX_NUM == 13
TAX_DEN == 600

\* d dollars, in units
Dollars(d) == d * TAX_DEN

\* amount * TAX_RATE
TimesTaxRate(amount) == (amount * TAX_NUM) \div TAX_DEN

DigitChars == <<"0", "1", "2", "3", "4", "5", "6", "7", "8", "9">>
IsDigit(c) == \E i \in 1..10 : DigitChars[i] = c
DigitVal(c) == (CHOOSE i \in 1..10 : DigitChars[i] = c) - 1

RECURSIVE ToDecimal(_)
ToDecimal(n) ==
  IF n < 10 THEN <<DigitChars[n + 1]>>
  ELSE ToDecimal(n \div 10) \o <<DigitChars[(n % 10) + 1]>>

RECURSIVE DecimalValue(_)
DecimalValue(ds) ==
  IF ds = <<>> THEN 0
  ELSE 10 * DecimalValue(SubSeq(ds, 1, Len(ds) - 1)) + DigitVal(ds[Len(ds)])

RECURSIVE Pow10(_)
Pow10(k) == IF k = 0 THEN 1 ELSE 10 * Pow10(k - 1)

\* Math.round(x): the nearest integer, ties towards +Infinity; x = num/den >= 0
RoundHalfUp(num, den) == (2 * num + den) \div (2 * den)

\* formatCurrency: round to cents, then toFixed(0), behind a "$"
formatCurrency(value) ==
  LET rounded == RoundHalfUp(value * 100, Dollars(1))
  IN  <<"$">> \o ToDecimal(RoundHalfUp(rounded, 100))

\* Number(text): [finite, value], the value in units (Number("1") is Dollars(1)).
\* Texts of digits and dots only; any other character makes it NaN, as do two
\* dots or a lone dot.  The fraction is exact for the texts drawn (whole cents).
\* (A sign, an exponent, surrounding white space: not in the texts drawn.)
Number(text) ==
  LET dots == {i \in 1..Len(text) : text[i] = "."}
  IN  IF text = <<>> THEN [finite |-> TRUE, value |-> 0]
      ELSE IF \/ \E i \in 1..Len(text) : ~IsDigit(text[i]) /\ text[i] # "."
              \/ Cardinality(dots) > 1 \/ text = <<".">>
        THEN [finite |-> FALSE, value |-> 0]
      ELSE IF dots = {}
        THEN [finite |-> TRUE, value |-> Dollars(DecimalValue(text))]
      ELSE LET d == CHOOSE i \in dots : TRUE
               whole == SubSeq(text, 1, d - 1)
               frac == SubSeq(text, d + 1, Len(text))
           IN  [finite |-> TRUE,
                value |-> Dollars(DecimalValue(whole))
                          + (Dollars(DecimalValue(frac)) \div Pow10(Len(frac)))]

\* parseCurrency: "$600" -> 600
parseCurrency(text) ==
  IF text = <<>> THEN 0
  ELSE LET cleaned == SelectSeq(text, LAMBDA c : IsDigit(c) \/ c = ".")
           number == Number(cleaned)
       IN  IF number.finite THEN number.value ELSE 0

(***************************************************************************)
(* JavaScript values and JSON text.                                        *)
(* A stored text is absent (getItem gives null), a plain text, or the      *)
(* text of an object literal: a sequence of <<name, literal>> members,     *)
(* where a literal is <<"num", n>>, <<"str", chars>> or <<"null", 0>>.     *)
(***************************************************************************)
JSNull == [type |-> "null"]
JSNumber(n) == [type |-> "number", num |-> n]
JSObject(props) == [type |-> "object", fields |-> props]
JSString(chars) == [type |-> "string", chars |-> chars]

NoItem == [kind |-> "none"]
PlainText(chars) == [kind |-> "text", chars |-> chars]
ObjectText(members) == [kind |-> "object", members |-> members]

TotalsFields == <<"subtotal", "taxes", "shippingCost", "total">>

\* (mutant) numbers are written rounded to the cent
JSONstringify_ToCents(totals) ==
  ObjectText([i \in 1..Len(TotalsFields) |->
               <<TotalsFields[i],
                 <<"num", 6 * RoundHalfUp(totals[TotalsFields[i]], 6)>> >>])

\* JSON.stringify of a Totals object of finite numbers, or of the object
\* Object.fromEntries makes of a form's entries, [entries |-> <<name, text>>...]
JSONstringify(totals) ==
  IF "entries" \in DOMAIN totals
    THEN ObjectText([i \in 1..Len(totals.entries) |->
                      <<totals.entries[i][1], <<"str", totals.entries[i][2]>> >>])
    ELSE ObjectText([i \in 1..Len(TotalsFields) |->
                      <<TotalsFields[i], <<"num", totals[TotalsFields[i]]>> >>])

\* JSON.parse: [threw, value]
JSONparse(raw) ==
  IF raw.kind = "object"
    THEN [threw |-> FALSE,
          value |-> JSObject([i \in 1..Len(raw.members) |->
                      <<raw.members[i][1],
                        IF raw.members[i][2][1] = "num"
                          THEN JSNumber(raw.members[i][2][2])
                        ELSE IF raw.members[i][2][1] = "str"
                          THEN JSString(raw.members[i][2][2])
                        ELSE JSNull>>])]
  ELSE IF raw.chars = <<"n", "u", "l", "l">>
    THEN [threw |-> FALSE, value |-> JSNull]
  ELSE IF raw.chars # <<>> /\ \A i \in 1..Len(raw.chars) : IsDigit(raw.chars[i])
          /\ (Len(raw.chars) = 1 \/ raw.chars[1] # "0")
    THEN [threw |-> FALSE, value |-> JSNumber(Dollars(DecimalValue(raw.chars)))]
  ELSE [threw |-> TRUE, value |-> JSNull]

\* localStorage.setItem(key, JSON.stringify(data))
saveToStorage(store, key, data) ==
  [store EXCEPT ![key] = JSONstringify(data)]

\* (mutant) JSON.parse is not wrapped in try/catch
loadFromStorage_NoCatch(store, key, fallback) ==
  LET raw == store[key]
  IN  IF raw.kind = "none" \/ (raw.kind = "text" /\ raw.chars = <<>>)
        THEN [threw |-> FALSE, value |-> fallback]
      ELSE JSONparse(raw)

\* loadFromStorage(key, fallback): how the call completes, [threw, value]
loadFromStorage(store, key, fallback) ==
  LET raw == store[key]
  IN  IF raw.kind = "none" \/ (raw.kind = "text" /\ raw.chars = <<>>)
        THEN [threw |-> FALSE, value |-> fallback]
      ELSE LET parsed == JSONparse(raw)
           IN  IF parsed.threw THEN [threw |-> FALSE, value |-> fallback]
               ELSE [threw |-> FALSE, value |-> parsed.value]

\* obj.name of a parsed value: [defined, value]
Property(v, name) ==
  IF v.type = "object" /\ \E i \in 1..Len(v.fields) : v.fields[i][1] = name
    THEN LET i == CHOOSE j \in 1..Len(v.fields) : v.fields[j][1] = name
         IN  [defined |-> TRUE, value |-> v.fields[i][2]]
  ELSE [defined |-> FALSE, value |-> JSNull]

\* !!v
Truthy(v) ==
  \/ v.type = "object"
  \/ v.type = "number" /\ v.num # 0

(***************************************************************************)
(* cart.js                                                                 *)
(***************************************************************************)
\* (mutant) the selects are not read: every row counts once
readCartFromDOM_IgnoresQty(prices, qtys) ==
  [i \in 1..Len(prices) |->
    LET p == Number(prices[i])
    IN  [price |-> IF p.finite /\ p.value # 0 THEN p.value ELSE 0, qty |-> 1]]

\* readCartFromDOM: Number(data-price) || 0 and Number(select.value) || 1
readCartFromDOM(prices, qtys) ==
  [i \in 1..Len(prices) |->
    LET p == Number(prices[i])
        q == Number(qtys[i])
    IN  [price |-> IF p.finite /\ p.value # 0 THEN p.value ELSE 0,
         qty |-> IF q.finite /\ q.value # 0 THEN q.value \div Dollars(1) ELSE 1]]

\* cart.reduce((sum, row) => sum + row.price * row.qty, 0)
RECURSIVE ReduceRows(_, _)
ReduceRows(cart, sum) ==
  IF cart = <<>> THEN sum
  ELSE ReduceRows(Tail(cart), sum + Head(cart).price * Head(cart).qty)

\* (mutant) the tax is taken on the subtotal plus shipping
cartCalculateTotals_TaxesShipping(cart, shippingCost) ==
  LET sum == ReduceRows(cart, 0)
      tax == TimesTaxRate(sum + shippingCost)
  IN  [subtotal |-> sum, taxes |-> tax, shippingCost |-> shippingCost,
       total |-> sum + tax + shippingCost]

\* initCart.calculateTotals(cart, shippingCost)
cartCalculateTotals(cart, shippingCost) ==
  LET sum == ReduceRows(cart, 0)
      tax == TimesTaxRate(sum)
  IN  [subtotal |-> sum, taxes |-> tax, shippingCost |-> shippingCost,
       total |-> sum + tax + shippingCost]

FREE == <<"F", "R", "E", "E">>

\* renderTotals (the same on both pages)
renderTotals(totals) ==
  [subtotal |-> formatCurrency(totals.subtotal),
   shipping |-> IF totals.shippingCost = 0 THEN FREE
                ELSE formatCurrency(totals.shippingCost),
   taxes |-> formatCurrency(totals.taxes),
   total |-> formatCurrency(totals.total)]

\* saveTotals
saveTotals(store, totals) == saveToStorage(store, STORAGE_KEYS.totals, totals)

\* initCart.recompute, on the rows' current select values
cartRecompute(qtys) ==
  LET cart == readCartFromDOM(cartPrices, qtys)
      shippingCost == 0
      totals == cartCalculateTotals(cart, shippingCost)
  IN  /\ cartView' = renderTotals(totals)
      /\ localStorage' = saveTotals(localStorage, totals)

(***************************************************************************)
(* shipping.js                                                             *)
(***************************************************************************)
\* Number.isFinite(storedTotals.subtotal)
IsFiniteProperty(v, name) ==
  Property(v, name).defined /\ Property(v, name).value.type = "number"

\* (mutant) the checked radio's cost attribute is not read
getSelectedShippingCost_AlwaysFree(selected, attrs) == 0

\* getSelectedShippingCost
getSelectedShippingCost(selected, attrs) ==
  IF selected = "none" THEN 0
  ELSE LET cost == Number(attrs[selected])
       IN  IF cost.finite THEN cost.value ELSE 0

\* (mutant) the total leaves the shipping cost out
shipCalculateTotals_DropsShipping(sub, shippingCost) ==
  LET tax == TimesTaxRate(sub)
  IN  [subtotal |-> sub, taxes |-> tax, shippingCost |-> shippingCost,
       total |-> sub + tax]

\* initShipping.calculateTotals(shippingCost)
shipCalculateTotals(sub, shippingCost) ==
  LET tax == TimesTaxRate(sub)
  IN  [subtotal |-> sub, taxes |-> tax, shippingCost |-> shippingCost,
       total |-> sub + tax + shippingCost]

\* (mutant) the threshold is inclusive
Qualifies_Inclusive(sub) == sub >= Dollars(600)

\* subtotal > 600
Qualifies(sub) == sub > Dollars(600)

\* (mutant) the other option is disabled but the free one is not checked
enforceFreeShippingRule_KeepsChoice(sub, sel, disabled, dimmed) ==
  IF Qualifies(sub)
    THEN [checked |-> sel, nextDisabled |-> TRUE, nextDimmed |-> TRUE]
    ELSE [checked |-> sel, nextDisabled |-> FALSE, nextDimmed |-> FALSE]

\* enforceFreeShippingRule: the radios' state after it
enforceFreeShippingRule(sub, sel, disabled, dimmed) ==
  IF Qualifies(sub)
    THEN [checked |-> "shipFree", nextDisabled |-> TRUE, nextDimmed |-> TRUE]
    ELSE [checked |-> sel, nextDisabled |-> FALSE, nextDimmed |-> FALSE]

\* initShipping.recompute, with the closure's subtotal and the radios as given
shipRecompute(sub, sel) ==
  LET radios == enforceFreeShippingRule(sub, sel, nextDisabled, nextDimmed)
      shippingCost == getSelectedShippingCost(radios.checked, shipCostAttr)
      totals == shipCalculateTotals(sub, shippingCost)
  IN  /\ checked' = radios.checked
      /\ nextDisabled' = radios.nextDisabled
      /\ nextDimmed' = radios.nextDimmed
      /\ shipView' = renderTotals(totals)
      /\ localStorage' = saveToStorage(localStorage, STORAGE_KEYS.totals, totals)

\* (mutant) no wireframe default behind the parsed placeholder
fallbackSubtotal_NoDefault(text) == parseCurrency(text)

\* const fallbackSubtotal = parseCurrency(subtotalEl.textContent) || 600
fallbackSubtotal(text) ==
  IF parseCurrency(text) # 0 THEN parseCurrency(text) ELSE Dollars(600)

\* const subtotal = storedTotals && Number.isFinite(storedTotals.subtotal) ? ... : ...
initialSubtotal(stored, text) ==
  IF Truthy(stored) /\ IsFiniteProperty(stored, "subtotal")
    THEN Property(stored, "subtotal").value.num
    ELSE fallbackSubtotal(text)

(***************************************************************************)
(* validation.js: patterns, messages and validators.                       *)
(* A validator's input is a JavaScript value: a string                     *)
(* [type |-> "string", chars |-> text], null or undefined.                 *)
(***************************************************************************)
JSUndefined == [type |-> "undefined"]

Lower == {"a", "b", "c", "d", "e", "f", "g", "h", "i", "j", "k", "l", "m",
          "n", "o", "p", "q", "r", "s", "t", "u", "v", "w", "x", "y", "z"}
Upper == {"A", "B", "C", "D", "E", "F", "G", "H", "I", "J", "K", "L", "M",
          "N", "O", "P", "Q", "R", "S", "T", "U", "V", "W", "X", "Y", "Z"}
Letters == Lower \cup Upper
\* characters of the range U+00C0..U+00FF, each written as one named character
Accented == {"A-grave", "e-acute", "n-tilde", "y-diaeresis"}
Digits == {DigitChars[i] : i \in 1..10}
\* what String.prototype.trim removes and \s matches
WhiteSpace == {" ", "\t", "\n", "NBSP"}

AllIn(text, S) == \A i \in 1..Len(text) : text[i] \in S
StartsWith(text, pre) ==
  Len(text) >= Len(pre) /\ SubSeq(text, 1, Len(pre)) = pre
After(text, pre) == SubSeq(text, Len(pre) + 1, Len(text))

\* text.trim()
RECURSIVE TrimStart(_)
TrimStart(text) ==
  IF text # <<>> /\ Head(text) \in WhiteSpace THEN TrimStart(Tail(text)) ELSE text
RECURSIVE TrimEnd(_)
TrimEnd(text) ==
  IF text # <<>> /\ text[Len(text)] \in WhiteSpace
    THEN TrimEnd(SubSeq(text, 1, Len(text) - 1)) ELSE text
Trim(text) == TrimEnd(TrimStart(text))

\* ValidationPatterns.email
MatchesEmail(text) ==
  \E at \in 1..Len(text), dot \in 1..Len(text) :
    /\ at > 1 /\ dot > at + 1 /\ Len(text) - dot >= 2
    /\ text[at] = "@" /\ text[dot] = "."
    /\ AllIn(SubSeq(text, 1, at - 1), Letters \cup Digits \cup {".", "_", "%", "+", "-"})
    /\ AllIn(SubSeq(text, at + 1, dot - 1), Letters \cup Digits \cup {".", "-"})
    /\ AllIn(SubSeq(text, dot + 1, Len(text)), Letters)

\* ValidationPatterns.postalCodes[country]; "none" when the table has no entry
MatchesPostalCode(country, text) ==
  IF country \in {"NZ", "AU"} THEN Len(text) = 4 /\ AllIn(text, Digits)
  ELSE \/ Len(text) = 5 /\ AllIn(text, Digits)
       \/ /\ Len(text) = 10 /\ text[6] = "-"
          /\ AllIn(SubSeq(text, 1, 5), Digits) /\ AllIn(SubSeq(text, 7, 10), Digits)
\* a table without the US entry
HasPostalPattern_NoUS(country) == country \in {"NZ", "AU"}

HasPostalPattern(country) == country \in {"NZ", "AU", "US"}

TwoToNine == Digits \ {"0", "1"}

\* ValidationPatterns.phonePatterns[country]
MatchesPhoneOf(country, text) ==
  IF country = "NZ"
    THEN \E pre \in {<<"+", "6", "4">>, <<"6", "4">>, <<"0">>} :
           /\ StartsWith(text, pre)
           /\ LET rest == After(text, pre)
              IN  /\ Len(rest) \in 8..10 /\ rest[1] \in TwoToNine
                  /\ AllIn(rest, Digits)
  ELSE IF country = "AU"
    THEN \E pre \in {<<"+", "6", "1">>, <<"6", "1">>, <<"0">>} :
           /\ StartsWith(text, pre)
           /\ LET rest == After(text, pre)
              IN  /\ Len(rest) = 9 /\ rest[1] \in TwoToNine
                  /\ AllIn(rest, Digits)
  ELSE \E pre \in {<<"+", "1">>, <<"1">>, <<>>} :
           /\ StartsWith(text, pre)
           /\ LET rest == After(text, pre)
              IN  /\ Len(rest) = 10 /\ rest[1] \in TwoToNine /\ rest[4] \in TwoToNine
                  /\ AllIn(rest, Digits)
HasPhonePattern(country) == country \in {"NZ", "AU", "US"}

\* ValidationPatterns.phone, the generic fallback
MatchesPhone(text) ==
  /\ Len(text) \in 8..20
  /\ AllIn(text, Digits \cup WhiteSpace \cup {"-", "+", "(", ")"})

\* ValidationPatterns.name
MatchesName(text) ==
  /\ Len(text) \in 2..50
  /\ AllIn(text, Letters \cup Accented \cup WhiteSpace \cup {"-", "'"})

\* ValidationPatterns.quantity: /^[1-9]\d*$/
MatchesQuantity(text) ==
  /\ text # <<>>
  /\ Head(text) \in Digits \ {"0"}
  /\ AllIn(Tail(text), Digits)

\* ValidationPatterns.cardExpiry
MatchesCardExpiry(text) ==
  /\ Len(text) >= 5
  /\ \/ text[1] = "0" /\ text[2] \in Digits \ {"0"}
     \/ text[1] = "1" /\ text[2] \in {"0", "1", "2"}
  /\ \E sp1 \in 0..1, sp2 \in 0..1 :
       /\ Len(text) = 5 + sp1 + sp2
       /\ sp1 = 1 => text[3] \in WhiteSpace
       /\ text[3 + sp1] = "/"
       /\ sp2 = 1 => text[4 + sp1] \in WhiteSpace
       /\ AllIn(SubSeq(text, 4 + sp1 + sp2, Len(text)), Digits)

ErrorMessages ==
  [required |-> "This field is required",
   firstName |-> "Please enter a valid first name (2-50 letters)",
   lastName |-> "Please enter a valid last name (2-50 letters)",
   email |-> "Please enter a valid email address (e.g., name@example.com)",
   phone |-> [NZ |-> "Please enter a valid NZ phone number (e.g., 021 123 4567 or +64 21 123 4567)",
              AU |-> "Please enter a valid AU phone number",
              US |-> "Please enter a valid US phone number",
              default |-> "Please enter a valid phone number"],
   postalCode |-> [NZ |-> "Please enter a valid NZ postal code (4 digits, e.g., 1010)",
                   AU |-> "Please enter a valid AU postal code (4 digits)",
                   US |-> "Please enter a valid US ZIP code (e.g., 12345 or 12345-6789)",
                   default |-> "Please enter a valid postal code"],
   address |-> "Please enter a valid address (minimum 5 characters)",
   city |-> "Please enter a valid city name",
   country |-> "Please select a country",
   cardNumber |-> "Please enter a valid card number (13-19 digits)",
   cardExpiry |-> "Please enter a valid expiry date (MM/YY)",
   cardExpiryPast |-> "Card has expired. Please use a valid card",
   cvv |-> "Please enter a valid CVV (3-4 digits on back of card)",
   cardHolder |-> "Please enter the cardholder name as shown on card",
   currency |-> "Please enter a valid positive amount",
   quantity |-> "Please enter a valid quantity (1 or more)",
   quantityMax |-> "Maximum quantity is 99"]

Required == [valid |-> FALSE, message |-> ErrorMessages.required]
Valid == [valid |-> TRUE, message |-> ""]
\* a result that keeps the message when valid
Verdict_AlwaysMessage(isValid, message) == [valid |-> isValid, message |-> message]

Verdict(isValid, message) ==
  [valid |-> isValid, message |-> IF isValid THEN "" ELSE message]

\* !value || value.trim() === ''
IsBlank(v) == v.type # "string" \/ Trim(v.chars) = <<>>

\* stripNonDigits
stripNonDigits(text) == SelectSeq(text, LAMBDA c : c \in Digits)

\* (mutant) a Luhn loop that leaves a doubled digit above 9 as it is
RECURSIVE LuhnSum_NoFold(_, _, _)
LuhnSum_NoFold(digits, i, isEven) ==
  IF i = 0 THEN 0
  ELSE LET d == DigitVal(digits[i])
       IN  (IF isEven THEN 2 * d ELSE d) + LuhnSum_NoFold(digits, i - 1, ~isEven)

\* the Luhn loop of validateCardNumber: the sum over digits[1..i], where isEven
\* tells whether digits[i] is a doubled position
RECURSIVE LuhnSum(_, _, _)
LuhnSum(digits, i, isEven) ==
  IF i = 0 THEN 0
  ELSE LET d == DigitVal(digits[i])
           digit == IF isEven THEN (IF 2 * d > 9 THEN 2 * d - 9 ELSE 2 * d) ELSE d
       IN  digit + LuhnSum(digits, i - 1, ~isEven)

\* the longest prefix of digits
RECURSIVE DigitPrefix(_)
DigitPrefix(text) ==
  IF text # <<>> /\ Head(text) \in Digits
    THEN <<Head(text)>> \o DigitPrefix(Tail(text)) ELSE <<>>

\* the text behind leading white space and one sign: [negative, rest]
Unsigned(text) ==
  LET t == TrimStart(text)
  IN  IF t # <<>> /\ Head(t) \in {"+", "-"}
        THEN [negative |-> Head(t) = "-", rest |-> Tail(t)]
        ELSE [negative |-> FALSE, rest |-> t]

\* parseInt(text, 10): [nan, value]
parseInt(text) ==
  LET u == Unsigned(text)
      ds == DigitPrefix(u.rest)
  IN  IF ds = <<>> THEN [nan |-> TRUE, value |-> 0]
      ELSE [nan |-> FALSE,
            value |-> IF u.negative THEN 0 - DecimalValue(ds) ELSE DecimalValue(ds)]

\* parseFloat(text): [nan, negative], negative telling whether the value is < 0
\* (an exponent does not change the sign; one that underflows is not drawn)
parseFloat(text) ==
  LET u == Unsigned(text)
      whole == DigitPrefix(u.rest)
      tail == After(u.rest, whole)
      frac == IF tail # <<>> /\ Head(tail) = "." THEN DigitPrefix(Tail(tail)) ELSE <<>>
  IN  IF StartsWith(u.rest, <<"I", "n", "f", "i", "n", "i", "t", "y">>)
        THEN [nan |-> FALSE, negative |-> u.negative]
      ELSE IF whole = <<>> /\ frac = <<>> THEN [nan |-> TRUE, negative |-> FALSE]
      ELSE [nan |-> FALSE,
            negative |-> u.negative /\ ~AllIn(whole \o frac, {"0"})]

\* validateEmail
validateEmail(email) ==
  IF IsBlank(email) THEN Required
  ELSE Verdict(MatchesEmail(Trim(email.chars)), ErrorMessages.email)

\* validateName(name, fieldType)
validateName(name, fieldType) ==
  IF IsBlank(name) THEN Required
  ELSE Verdict(MatchesName(Trim(name.chars)),
               IF fieldType \in DOMAIN ErrorMessages
                 THEN ErrorMessages[fieldType] ELSE ErrorMessages.firstName)

\* validatePhone(phone, country)
validatePhone(phone, country) ==
  IF IsBlank(phone) THEN Required
  ELSE LET cleanPhone ==
             SelectSeq(phone.chars, LAMBDA c : c \notin WhiteSpace \cup {"-", "(", ")"})
           isValid == IF HasPhonePattern(country)
                        THEN MatchesPhoneOf(country, cleanPhone)
                        ELSE MatchesPhone(cleanPhone)
       IN  Verdict(isValid,
                   IF country \in DOMAIN ErrorMessages.phone
                     THEN ErrorMessages.phone[country] ELSE ErrorMessages.phone.default)

\* validatePostalCode(postalCode, country); toUpperCase changes no character
\* the patterns read
validatePostalCode(postalCode, country) ==
  IF IsBlank(postalCode) THEN Required
  ELSE LET cleanCode == Trim(postalCode.chars)
       IN  IF ~HasPostalPattern(country) THEN Valid
           ELSE Verdict(MatchesPostalCode(country, cleanCode),
                        IF country \in DOMAIN ErrorMessages.postalCode
                          THEN ErrorMessages.postalCode[country]
                          ELSE ErrorMessages.postalCode.default)

\* validateAddress
validateAddress(address) ==
  IF IsBlank(address) THEN Required
  ELSE Verdict(Len(Trim(address.chars)) >= 5, ErrorMessages.address)

\* validateCity
validateCity(city) ==
  IF IsBlank(city) THEN Required
  ELSE Verdict(MatchesName(Trim(city.chars)), ErrorMessages.city)

\* validateCardNumber
validateCardNumber(cardNumber) ==
  IF IsBlank(cardNumber) THEN Required
  ELSE LET digits == stripNonDigits(cardNumber.chars)
       IN  IF Len(digits) < 13 \/ Len(digits) > 19
             THEN [valid |-> FALSE, message |-> ErrorMessages.cardNumber]
           ELSE Verdict(LuhnSum(digits, Len(digits), FALSE) % 10 = 0,
                        ErrorMessages.cardNumber)

\* detectCardType
detectCardType(cardNumber) ==
  LET digits == stripNonDigits(cardNumber)
      second(S) == Len(digits) >= 2 /\ digits[2] \in S
  IN  IF StartsWith(digits, <<"4">>) THEN "visa"
      ELSE IF \/ StartsWith(digits, <<"5">>) /\ second({"1", "2", "3", "4", "5"})
              \/ StartsWith(digits, <<"2">>) /\ second({"2", "3", "4", "5", "6", "7"})
        THEN "mastercard"
      ELSE IF StartsWith(digits, <<"3">>) /\ second({"4", "7"}) THEN "amex"
      ELSE IF \/ StartsWith(digits, <<"6", "0", "1", "1">>)
              \/ StartsWith(digits, <<"6", "5">>)
        THEN "discover"
      ELSE "unknown"

\* an expiry check that compares the years only
validateCardExpiry_YearOnly(expiry, now) ==
  IF IsBlank(expiry) THEN Required
  ELSE IF ~MatchesCardExpiry(expiry.chars)
    THEN [valid |-> FALSE, message |-> ErrorMessages.cardExpiry]
  ELSE LET compact == SelectSeq(expiry.chars, LAMBDA c : c \notin WhiteSpace)
           year == parseInt(<<"2", "0">> \o SubSeq(compact, 4, 5)).value
       IN  IF year < now.year
             THEN [valid |-> FALSE, message |-> ErrorMessages.cardExpiryPast]
           ELSE IF year > now.year + 10
             THEN [valid |-> FALSE, message |-> ErrorMessages.cardExpiry]
           ELSE Valid

\* validateCardExpiry, with new Date() as now = [year, month]
validateCardExpiry(expiry, now) ==
  IF IsBlank(expiry) THEN Required
  ELSE IF ~MatchesCardExpiry(expiry.chars)
    THEN [valid |-> FALSE, message |-> ErrorMessages.cardExpiry]
  ELSE LET compact == SelectSeq(expiry.chars, LAMBDA c : c \notin WhiteSpace)
           month == parseInt(SubSeq(compact, 1, 2)).value
           year == parseInt(<<"2", "0">> \o SubSeq(compact, 4, 5)).value
       IN  IF year < now.year \/ (year = now.year /\ month < now.month)
             THEN [valid |-> FALSE, message |-> ErrorMessages.cardExpiryPast]
           ELSE IF year > now.year + 10
             THEN [valid |-> FALSE, message |-> ErrorMessages.cardExpiry]
           ELSE Valid

\* validateCVV(cvv, cardType): expectedLength is computed and not used
validateCVV(cvv, cardType) ==
  IF IsBlank(cvv) THEN Required
  ELSE LET digits == stripNonDigits(cvv.chars)
       IN  Verdict(Len(digits) >= 3 /\ Len(digits) <= 4 /\ digits # <<>>,
                   ErrorMessages.cvv)

\* amount === '' || amount === null || amount === undefined
IsMissing(v) == v.type # "string" \/ v.chars = <<>>

\* validateCurrency
validateCurrency(amount) ==
  IF IsMissing(amount) THEN Required
  ELSE LET value == parseFloat(amount.chars)
       IN  IF value.nan \/ value.negative
             THEN [valid |-> FALSE, message |-> ErrorMessages.currency]
           ELSE Valid

\* validateQuantity
validateQuantity(quantity) ==
  IF IsMissing(quantity) THEN Required
  ELSE LET value == parseInt(quantity.chars)
       IN  IF value.nan \/ value.value < 1
             THEN [valid |-> FALSE, message |-> ErrorMessages.quantity]
           ELSE IF value.value > 99
             THEN [valid |-> FALSE, message |-> ErrorMessages.quantityMax]
           ELSE Valid

(***************************************************************************)
(* validation.js: error display, field and form validation, formatters.    *)
(* A field of a form is the record [type, value, disabled, text, hidden,   *)
(* red, dark, invalid, describedBy]: the input's type, value and disabled  *)
(* flag, the text and the hidden class of its .error-message element, its  *)
(* classes border-red-500 and border-brand-green-dark, its aria-invalid    *)
(* attribute ("unset" while absent) and whether aria-describedby is set.   *)
(* Every field has an .error-message element of its own.                   *)
(***************************************************************************)
\* showFieldError(input, message); withId: the error element has an id
showFieldError(f, message, withId) ==
  [f EXCEPT !.text = message, !.hidden = FALSE,
            !.red = TRUE, !.dark = FALSE, !.invalid = "true",
            !.describedBy = IF withId THEN TRUE ELSE @]

\* clearFieldError(input)
clearFieldError(f) ==
  [f EXCEPT !.text = "", !.hidden = TRUE,
            !.red = FALSE, !.dark = TRUE, !.invalid = "false",
            !.describedBy = FALSE]

\* resetFieldStyling(input)
resetFieldStyling(f) ==
  [f EXCEPT !.red = FALSE, !.dark = TRUE, !.invalid = "false"]

\* the option values of the country select, as the validators' country codes
CountryText ==
  [NZ |-> <<"N", "Z">>, AU |-> <<"A", "U">>, US |-> <<"U", "S">>, FR |-> <<"F", "R">>]
CodeOf(text) ==
  IF \E c \in DOMAIN CountryText : CountryText[c] = text
    THEN CHOOSE c \in DOMAIN CountryText : CountryText[c] = text
    ELSE ""

\* validateField(input, country): cardNumber is the value of #cardNumber ('' when
\* the document has none), required tells whether the input has the attribute
validateField(id, value, country, cardNumber, required, now) ==
  CASE id = "firstName" -> validateName(JSString(value), "firstName")
    [] id = "lastName" -> validateName(JSString(value), "lastName")
    [] id = "email" -> validateEmail(JSString(value))
    [] id = "phone" -> validatePhone(JSString(value), country)
    [] id = "postalCode" -> validatePostalCode(JSString(value), country)
    [] id = "address1" -> validateAddress(JSString(value))
    [] id = "city" -> validateCity(JSString(value))
    [] id = "country" ->
         IF value = <<>> THEN [valid |-> FALSE, message |-> ErrorMessages.country]
         ELSE Valid
    [] id = "cardNumber" -> validateCardNumber(JSString(value))
    [] id = "expiry" -> validateCardExpiry(JSString(value), now)
    [] id = "cvv" -> validateCVV(JSString(value), detectCardType(cardNumber))
    [] id = "cardHolder" -> validateName(JSString(value), "cardHolder")
    [] OTHER -> IF required /\ Trim(value) = <<>> THEN Required ELSE Valid

\* new Date() while a form is shown
Today == [year |-> 2026, month |-> 11]

\* validateField on field id of the form fs
FieldResult(fs, id, country) ==
  validateField(id, fs[id].value, country,
                IF "cardNumber" \in DOMAIN fs THEN fs["cardNumber"].value ELSE <<>>,
                FALSE, Today)

\* getCountry of initShippingFormValidation: countrySelect?.value || 'NZ';
\* a form without a country select gets the default () => 'NZ'
getCountry(fs) ==
  IF "country" \in DOMAIN fs /\ fs["country"].value # <<>>
    THEN CodeOf(fs["country"].value) ELSE "NZ"

\* (mutant) the blur handler validates with the default country
blurHandler_DefaultCountry(fs, id, withId) ==
  LET result == FieldResult(fs, id, "NZ")
  IN  IF ~result.valid THEN showFieldError(fs[id], result.message, withId)
      ELSE clearFieldError(fs[id])

\* the blur handler of setupRealTimeValidation: the field afterwards
blurHandler(fs, id, withId) ==
  LET result == FieldResult(fs, id, getCountry(fs))
  IN  IF ~result.valid THEN showFieldError(fs[id], result.message, withId)
      ELSE clearFieldError(fs[id])

\* the input handler of setupRealTimeValidation: the field afterwards
inputHandler(f) ==
  IF ~f.hidden THEN [resetFieldStyling(f) EXCEPT !.hidden = TRUE] ELSE f

\* (mutant) a pass that checks disabled and hidden fields too
validateForm_ChecksDisabled(fs, order, withId) ==
  LET failing(id) == ~FieldResult(fs, id, getCountry(fs)).valid
      failed == {i \in 1..Len(order) : failing(order[i])}
  IN  [isValid |-> failed = {},
       fields |-> [id \in DOMAIN fs |->
                    IF failing(id)
                      THEN showFieldError(fs[id], FieldResult(fs, id, getCountry(fs)).message, withId)
                    ELSE clearFieldError(fs[id])],
       firstInvalidField |->
         IF failed = {} THEN "none"
         ELSE order[CHOOSE i \in failed : \A j \in failed : i <= j]]

\* (mutant) the pass marks the failing fields and reports success all the same
validateForm_ReportsValid(fs, order, withId) ==
  [isValid |-> TRUE,
   fields |-> [id \in DOMAIN fs |->
                IF ~fs[id].disabled /\ ~FieldResult(fs, id, getCountry(fs)).valid
                  THEN showFieldError(fs[id], FieldResult(fs, id, getCountry(fs)).message, withId)
                ELSE fs[id]],
   firstInvalidField |-> "none"]

\* validateForm(form, { getCountry }) on the inputs and selects in document
\* order: [isValid, fields, firstInvalidField]
validateForm(fs, order, withId) ==
  LET skipped(id) == fs[id].disabled \/ fs[id].type = "hidden"
      failing(id) == ~skipped(id) /\ ~FieldResult(fs, id, getCountry(fs)).valid
      failed == {i \in 1..Len(order) : failing(order[i])}
  IN  [isValid |-> failed = {},
       fields |-> [id \in DOMAIN fs |->
                    IF skipped(id) THEN fs[id]
                    ELSE IF failing(id)
                      THEN showFieldError(fs[id], FieldResult(fs, id, getCountry(fs)).message, withId)
                    ELSE clearFieldError(fs[id])],
       firstInvalidField |->
         IF failed = {} THEN "none"
         ELSE order[CHOOSE i \in failed : \A j \in failed : i <= j]]

\* formatCardNumber: the digits in groups of four, joined by spaces
RECURSIVE GroupsOfFour(_)
GroupsOfFour(digits) ==
  IF Len(digits) <= 4 THEN digits
  ELSE SubSeq(digits, 1, 4) \o <<" ">> \o GroupsOfFour(SubSeq(digits, 5, Len(digits)))
formatCardNumber(value) == GroupsOfFour(stripNonDigits(value))

\* the input handler of setupExpiryFormatting: the value afterwards
formatExpiryInput(value) ==
  LET digits == stripNonDigits(value)
  IN  IF Len(digits) >= 2
        THEN SubSeq(digits, 1, 2) \o <<" ", "/", " ">>
               \o SubSeq(digits, 3, IF Len(digits) < 4 THEN Len(digits) ELSE 4)
        ELSE digits

\* the input handler of setupCVVInput: the value afterwards
formatCVVInput(value) ==
  LET digits == stripNonDigits(value)
  IN  SubSeq(digits, 1, IF Len(digits) < 4 THEN Len(digits) ELSE 4)

\* the text setupCardNumberFormatting gives #cardTypeIcon; "BOX" stands for
\* the one-character text U+25AD
cardTypeIconText(value) ==
  LET cardType == detectCardType(value)
  IN  CASE cardType = "visa" -> "VISA"
        [] cardType = "mastercard" -> "MC"
        [] cardType = "amex" -> "AMEX"
        [] cardType = "discover" -> "DISC"
        [] OTHER -> "BOX"

\* (mutant) a country change that validates the postal code only
countryChangeHandler_PostalOnly(fs, code, withId) ==
  LET revalidated(id, result) ==
        IF id \in DOMAIN fs /\ fs[id].value # <<>>
          THEN IF ~result.valid THEN showFieldError(fs[id], result.message, withId)
               ELSE clearFieldError(fs[id])
          ELSE fs[id]
  IN  [id \in DOMAIN fs |->
        IF id = "postalCode"
          THEN revalidated(id, validatePostalCode(JSString(fs[id].value), code))
        ELSE fs[id]]

\* the change handler of the country select, this.value being code: the
\* fields afterwards
countryChangeHandler(fs, code, withId) ==
  LET revalidated(id, result) ==
        IF id \in DOMAIN fs /\ fs[id].value # <<>>
          THEN IF ~result.valid THEN showFieldError(fs[id], result.message, withId)
               ELSE clearFieldError(fs[id])
          ELSE fs[id]
  IN  [id \in DOMAIN fs |->
        IF id = "postalCode"
          THEN revalidated(id, validatePostalCode(JSString(fs[id].value), code))
        ELSE IF id = "phone"
          THEN revalidated(id, validatePhone(JSString(fs[id].value), code))
        ELSE fs[id]]

\* (mutant) the fields are disabled with their error annotations left on
toggleCardFields_KeepsErrors(fs, enabled) ==
  [id \in DOMAIN fs |->
    IF id \in {"cardNumber", "expiry", "cvv", "cardHolder"}
      THEN [fs[id] EXCEPT !.disabled = ~enabled]
    ELSE fs[id]]

\* toggleCardFields(enabled) of payment.js and the radios' change handler of
\* initPaymentFormValidation: the fields afterwards
toggleCardFields(fs, enabled) ==
  [id \in DOMAIN fs |->
    IF id \in {"cardNumber", "expiry", "cvv", "cardHolder"}
      THEN IF enabled THEN [fs[id] EXCEPT !.disabled = FALSE]
           ELSE clearFieldError([fs[id] EXCEPT !.disabled = TRUE])
    ELSE fs[id]]

(***************************************************************************)
(* The markup and the stored texts the pages are run on.                   *)
(***************************************************************************)
PriceAttrs == {<<"1">>, <<"6", "0", "0">>}
QtyOptions == {ToDecimal(q) : q \in 1..MaxQty}
Placeholders ==
  {<<"$", "6", "0", "0">>, <<"$", "6", "0", "1", ".", "0", "0">>,
   <<"$", "4", "5">>, <<"$", "0">>, <<>>}
ShipCostAttrs ==
  {[shipFree |-> <<"0">>, shipNext |-> c] : c \in {<<"2", "5">>, <<"9", ".", "9", "9">>}}
Radios == {"shipFree", "shipNext"}

SeqsUpTo(S, n) == UNION {[1..k -> S] : k \in 1..n}

NoView == [subtotal |-> <<>>, shipping |-> <<>>, taxes |-> <<>>, total |-> <<>>]

\* what the totals key may hold before any page of this tab has run
PriorTexts ==
  {NoItem, PlainText(<<>>), PlainText(<<"{", "o", "o", "p", "s">>),
   PlainText(<<"n", "u", "l", "l">>), PlainText(<<"4", "2">>),
   ObjectText(<< <<"subtotal", <<"null", 0>> >> >>)}

FlowInit ==
  /\ page = "none"
  /\ cartPrices \in SeqsUpTo(PriceAttrs, MaxRows)
  /\ cartQty = [i \in 1..Len(cartPrices) |-> <<"1">>]
  /\ cartView = NoView
  /\ placeholder \in Placeholders
  /\ shipCostAttr \in ShipCostAttrs
  /\ storedTotals = JSNull
  /\ subtotal = 0
  /\ checked = "none"
  /\ nextDisabled = FALSE
  /\ nextDimmed = FALSE
  /\ shipView = NoView

\* the keys of this prototype: STORAGE_KEYS, and 'cpa_shipping' of validation.js
StorageKeys == {STORAGE_KEYS.totals, STORAGE_KEYS.cart, "cpa_shipping"}

Init ==
  /\ FlowInit
  /\ \E prior \in PriorTexts :
       localStorage = [k \in StorageKeys |->
                        IF k = STORAGE_KEYS.totals THEN prior ELSE NoItem]
  /\ call = [fn |-> "none"]
  /\ ret = [done |-> FALSE]
  /\ FormIdle
  /\ HomeIdle

\* cart.html is loaded: initCart runs on the selects' default option
LoadCart ==
  LET qtys == [i \in 1..Len(cartPrices) |-> <<"1">>]
  IN
    /\ page' = "cart"
    /\ cartQty' = qtys
    /\ cartRecompute(qtys)
    /\ storedTotals' = JSNull
    /\ subtotal' = 0
    /\ checked' = "none"
    /\ nextDisabled' = FALSE
    /\ nextDimmed' = FALSE
    /\ shipView' = NoView
    /\ UNCHANGED <<homeVars, cartPrices, placeholder, shipCostAttr, call, ret, formVars>>

\* change event of row i's quantity select
ChangeQty ==
  \E i \in 1..Len(cartPrices), q \in QtyOptions :
    /\ page = "cart"
    /\ q # cartQty[i]
    /\ cartQty' = [cartQty EXCEPT ![i] = q]
    /\ cartRecompute(cartQty')
    /\ UNCHANGED <<homeVars, page, cartPrices, placeholder, shipCostAttr, storedTotals,
                   subtotal, checked, nextDisabled, nextDimmed, shipView, call, ret, formVars>>

\* shipping.html is loaded: initShipping runs on the radios as the browser shows them
initShipping ==
  \E sel \in Radios \cup {"none"} :
    LET stored == loadFromStorage(localStorage, STORAGE_KEYS.totals, JSNull).value
        sub == initialSubtotal(stored, placeholder)
    IN  /\ page' = "shipping"
        /\ storedTotals' = stored
        /\ subtotal' = sub
        /\ shipRecompute(sub, sel)
        /\ cartView' = NoView
        /\ cartQty' = [i \in 1..Len(cartPrices) |-> <<"1">>]
        /\ UNCHANGED <<homeVars, cartPrices, placeholder, shipCostAttr, call, ret>>

LoadShipping == initShipping /\ UNCHANGED formVars

\* change event of a shipping radio: the user checks an enabled, unchecked radio
ChangeShipping ==
  \E sel \in Radios :
    /\ page = "shipping"
    /\ sel # checked
    /\ ~(sel = "shipNext" /\ nextDisabled)
    /\ shipRecompute(subtotal, sel)
    /\ UNCHANGED <<homeVars, page, cartPrices, cartQty, cartView, placeholder, shipCostAttr,
                   storedTotals, subtotal, call, ret, formVars>>

Next == LoadCart \/ ChangeQty \/ LoadShipping \/ ChangeShipping

Spec == Init /\ [][Next]_vars

\* no page is loaded while the calls are made
FlowIdle ==
  /\ page = "none"
  /\ cartPrices = << <<"1">> >>
  /\ cartQty = << <<"1">> >>
  /\ cartView = NoView
  /\ placeholder = <<>>
  /\ shipCostAttr = [shipFree |-> <<"0">>, shipNext |-> <<"2", "5">>]
  /\ storedTotals = JSNull
  /\ subtotal = 0
  /\ checked = "none"
  /\ nextDisabled = FALSE
  /\ nextDimmed = FALSE
  /\ shipView = NoView

(***************************************************************************)
(* The shipping form and the payment form, each under a specification of   *)
(* its own: the page is loaded with empty inputs, and the user types,      *)
(* leaves fields, selects and submits.                                     *)
(* The forms are run on these of their fields, in document order.          *)
(***************************************************************************)
ShippingFields == <<"firstName", "phone", "postalCode", "country">>
PaymentFields == <<"cardNumber", "expiry", "cvv", "cardHolder">>
Forms == {"shippingForm", "paymentForm"}
FieldsOf(fm) == IF fm = "shippingForm" THEN ShippingFields ELSE PaymentFields
FieldIds(fm) == {FieldsOf(fm)[i] : i \in 1..Len(FieldsOf(fm))}
PageOf(fm) == IF fm = "shippingForm" THEN "shipping.html" ELSE "payment.html"

\* the options of the country select; <<>> is its placeholder option
CountryOptions == {<<>>, CountryText.NZ, CountryText.US}

\* what the user leaves in a field after an edit
TypedValues(id) ==
  CASE id = "firstName" -> {<<>>, <<"A", "n", "n", "e">>}
    [] id = "phone" ->
         {<<>>, <<"0", "2", "1", " ", "1", "2", "3", " ", "4", "5", "6", "7">>}
    [] id = "postalCode" -> {<<>>, <<"1", "0", "1", "0">>, <<"1", "2", "3", "4", "5">>}
    [] id = "cardNumber" ->
         {<<>>, <<"4", "1", "1", "1", "1", "1", "1", "1", "1", "1", "1", "1", "1", "1", "1", "1">>}
    [] id = "expiry" -> {<<>>, <<"1", "2", "3", "0">>}
    [] id = "cvv" -> {<<>>, <<"1", "2", "3">>}
    [] id = "cardHolder" -> {<<>>, <<"A", "n", "n", "e">>}

\* the value the field's input handlers leave when the user has typed
FormattedValue(id, typed) ==
  CASE id = "cardNumber" -> formatCardNumber(typed)
    [] id = "expiry" -> formatExpiryInput(typed)
    [] id = "cvv" -> formatCVVInput(typed)
    [] OTHER -> typed

\* a field as the page shows it first
NewField(value) ==
  [type |-> "text", value |-> value, disabled |-> FALSE, text |-> "", hidden |-> TRUE,
   red |-> FALSE, dark |-> TRUE, invalid |-> "unset", describedBy |-> FALSE]

\* what earlier pages left in the store
SavedTotals == JSONstringify(shipCalculateTotals(Dollars(600), 0))
SavedShipping == JSONstringify([entries |-> << <<"firstName", <<"A", "n", "n", "e">> >> >>])
\* the shipping page has saved its totals at load; the payment page is reached
\* from a submitted shipping form
\* from a submitted shipping form
FormStores(fm) ==
  {[k \in StorageKeys |->
     IF k = STORAGE_KEYS.totals THEN SavedTotals
     ELSE IF k = "cpa_shipping" /\ fm = "paymentForm" THEN SavedShipping
     ELSE NoItem]}

\* the page of form fm has been loaded
FormInit(fm) ==
  /\ FlowIdle
  /\ HomeIdle
  /\ call = [fn |-> "none"]
  /\ ret = [done |-> FALSE]
  /\ form = fm
  /\ location = PageOf(form)
  /\ errorIds \in BOOLEAN
  /\ localStorage \in FormStores(form)
  /\ \E c \in {<<>>, CountryText.NZ} :
       fields = [id \in FieldIds(form) |-> NewField(IF id = "country" THEN c ELSE <<>>)]
  /\ focus = "none"
  /\ paymentMethod = IF form = "paymentForm" THEN "card" ELSE "none"
  /\ cardDimmed = FALSE
  /\ cardIcon = ""
  /\ overlay = FALSE

ShippingFormInit == FormInit("shippingForm")
PaymentFormInit == FormInit("paymentForm")

\* form fm is on the page the tab shows
OnForm(fm) == form = fm /\ location = PageOf(fm)

\* blur event of the enabled field id
BlurOf(id) ==
  /\ form \in Forms /\ OnForm(form)
  /\ ~fields[id].disabled
  /\ fields' = [fields EXCEPT ![id] = blurHandler(fields, id, errorIds)]
  /\ UNCHANGED <<homeVars, flowVars, localStorage, call, ret, form, location, errorIds,
                 focus, paymentMethod, cardDimmed, cardIcon, overlay>>

BlurField == \E id \in DOMAIN fields : BlurOf(id)

\* input event of an enabled text field after an edit: the formatter of the
\* field, where it has one, and the input handler of setupRealTimeValidation
\* (the cursor position is not part of the state)
InputOf(id, typed) ==
  LET value == FormattedValue(id, typed)
  IN  /\ form \in Forms /\ OnForm(form)
      /\ ~fields[id].disabled
      /\ value # fields[id].value
      /\ fields' = [fields EXCEPT ![id] = inputHandler([@ EXCEPT !.value = value])]
      /\ cardIcon' = IF id = "cardNumber" THEN cardTypeIconText(value) ELSE cardIcon
      /\ UNCHANGED <<homeVars, flowVars, localStorage, call, ret, form, location, errorIds,
                     focus, paymentMethod, cardDimmed, overlay>>

InputField ==
  \E id \in DOMAIN fields \ {"country"} :
    \E typed \in TypedValues(id) : InputOf(id, typed)

\* the user selects another country: the select's input event, then its
\* change event
SelectCountryTo(c) ==
  /\ OnForm("shippingForm")
  /\ c # fields["country"].value
  /\ LET afterInput ==
           [fields EXCEPT !["country"] = inputHandler([@ EXCEPT !.value = c])]
     IN  fields' = countryChangeHandler(afterInput, CodeOf(c), errorIds)
  /\ UNCHANGED <<homeVars, flowVars, localStorage, call, ret, form, location, errorIds,
                 focus, paymentMethod, cardDimmed, cardIcon, overlay>>

SelectCountry == \E c \in CountryOptions : SelectCountryTo(c)

\* the entries FormData gives for the enabled fields, named by their ids
FormEntries(fs, order) ==
  LET enabled == SelectSeq(order, LAMBDA id : ~fs[id].disabled)
  IN  [entries |-> [i \in 1..Len(enabled) |-> <<enabled[i], fs[enabled[i]].value>>]]

\* submit event of the shipping form
SubmitShipping ==
  LET pass == validateForm(fields, ShippingFields, errorIds)
  IN  /\ OnForm("shippingForm")
      /\ fields' = pass.fields
      /\ focus' = IF pass.firstInvalidField # "none" THEN pass.firstInvalidField ELSE focus
      /\ IF pass.isValid
           THEN /\ localStorage' =
                     saveToStorage(localStorage, "cpa_shipping", FormEntries(fields, ShippingFields))
                /\ location' = "payment.html"
           ELSE UNCHANGED <<localStorage, location>>
      /\ UNCHANGED <<homeVars, flowVars, call, ret, form, errorIds, paymentMethod, cardDimmed,
                     cardIcon, overlay>>

\* change event of a paymentMethod radio: handlePaymentMethodChange of
\* payment.js and the handler of initPaymentFormValidation
ChangePaymentMethod ==
  \E m \in {"card", "paypal"} :
    /\ OnForm("paymentForm")
    /\ m # paymentMethod
    /\ paymentMethod' = m
    /\ fields' = toggleCardFields(fields, m = "card")
    /\ cardDimmed' = (m # "card")
    /\ UNCHANGED <<homeVars, flowVars, localStorage, call, ret, form, location, errorIds,
                   focus, cardIcon, overlay>>

\* (mutant) the shipping details are left in the store
showPaymentSuccess_KeepsShipping(store) ==
  [k \in DOMAIN store |->
    IF k \in {STORAGE_KEYS.totals, STORAGE_KEYS.cart} THEN NoItem ELSE store[k]]

\* showPaymentSuccess: the store afterwards
showPaymentSuccess(store) ==
  [k \in DOMAIN store |->
    IF k \in {STORAGE_KEYS.totals, STORAGE_KEYS.cart, "cpa_shipping"}
      THEN NoItem ELSE store[k]]

\* submit event of the payment form
SubmitPayment ==
  LET pass == validateForm(fields, PaymentFields, errorIds)
  IN  /\ OnForm("paymentForm")
      /\ IF paymentMethod = "card"
           THEN /\ fields' = pass.fields
                /\ focus' = IF pass.firstInvalidField # "none"
                              THEN pass.firstInvalidField ELSE focus
                /\ IF pass.isValid
                     THEN /\ overlay' = TRUE
                          /\ localStorage' = showPaymentSuccess(localStorage)
                     ELSE UNCHANGED <<overlay, localStorage>>
           ELSE /\ overlay' = TRUE
                /\ localStorage' = showPaymentSuccess(localStorage)
                /\ UNCHANGED <<fields, focus>>
      /\ UNCHANGED <<homeVars, flowVars, call, ret, form, location, errorIds, paymentMethod,
                     cardDimmed, cardIcon>>

ShippingFormNext == BlurField \/ InputField \/ SelectCountry \/ SubmitShipping
ShippingFormSpec == ShippingFormInit /\ [][ShippingFormNext]_vars

\* the user leaves the payment page for shipping.html: the payment document
\* and its overlay are gone, initShipping runs
ReturnToShipping ==
  /\ OnForm("paymentForm")
  /\ initShipping
  /\ form' = "none"
  /\ location' = "none"
  /\ errorIds' = FALSE
  /\ fields' = <<>>
  /\ focus' = "none"
  /\ paymentMethod' = "none"
  /\ cardDimmed' = FALSE
  /\ cardIcon' = ""
  /\ overlay' = FALSE

PaymentFormNext ==
  BlurField \/ InputField \/ ChangePaymentMethod \/ SubmitPayment \/ ReturnToShipping
PaymentFormSpec == PaymentFormInit /\ [][PaymentFormNext]_vars

(***************************************************************************)
(* home.js: the countdown of the home page, open in up to two tabs of one   *)
(* browser. Time is counted in units of eight hours; the display is kept   *)
(* as the remaining time it is computed from.                              *)
(***************************************************************************)
COUNTDOWN_KEY == "aag_countdown_end"
\* 24 hours
COUNTDOWN_DURATION == 3
\* the clock is run up to
MaxTime == 7
Tabs == {1, 2}

\* a tab that does not show the home page
NoHome == [open |-> FALSE, endTime |-> 0, shown |-> 0]

\* resetCountdown: [endTime, store]
resetCountdown(store, now) ==
  LET newEndTime == now + COUNTDOWN_DURATION
  IN  [endTime |-> newEndTime,
       store |-> [store EXCEPT ![COUNTDOWN_KEY] = PlainText(ToDecimal(newEndTime))]]

\* (mutant) every load starts a new countdown
getCountdownEndTime_AlwaysNew(store, now) == resetCountdown(store, now)

\* getCountdownEndTime: [endTime, store]
getCountdownEndTime(store, now) ==
  LET stored == store[COUNTDOWN_KEY]
  IN  IF /\ stored.kind = "text" /\ stored.chars # <<>>
         /\ ~parseInt(stored.chars).nan
         /\ parseInt(stored.chars).value > now
        THEN [endTime |-> parseInt(stored.chars).value, store |-> store]
      ELSE resetCountdown(store, now)

\* updateTimer, and showExpiredMessage when the time is up: [tab, store]
updateTimer(tab, store, now) ==
  LET remaining == tab.endTime - now
  IN  IF remaining <= 0
        THEN [tab |-> [tab EXCEPT !.endTime = resetCountdown(store, now).endTime,
                                  !.shown = 0],
              store |-> resetCountdown(store, now).store]
      ELSE [tab |-> [tab EXCEPT !.shown = remaining], store |-> store]

\* what the countdown key may hold before the home page has run
PriorDeadlines == {NoItem, PlainText(<<>>), PlainText(<<"s", "o", "o", "n">>)}

CountdownInit ==
  /\ FlowIdle
  /\ FormIdle
  /\ call = [fn |-> "none"]
  /\ ret = [done |-> FALSE]
  /\ clock = 0
  /\ home = [t \in Tabs |-> NoHome]
  /\ \E prior \in PriorDeadlines : localStorage = [k \in {COUNTDOWN_KEY} |-> prior]

\* time passes
AdvanceClock ==
  /\ clock < MaxTime
  /\ clock' = clock + 1
  /\ UNCHANGED <<flowVars, formVars, localStorage, call, ret, home>>

\* tab t loads the home page: initCountdownTimer up to its first updateTimer
LoadHomeIn(t) ==
  LET got == getCountdownEndTime(localStorage, clock)
      first == updateTimer([open |-> TRUE, endTime |-> got.endTime, shown |-> 0],
                           got.store, clock)
  IN  /\ home' = [home EXCEPT ![t] = first.tab]
      /\ localStorage' = first.store
      /\ UNCHANGED <<flowVars, formVars, call, ret, clock>>

LoadHome == \E t \in Tabs : LoadHomeIn(t)

\* the interval (or the timeout of showExpiredMessage) fires in an open tab
TimerTick ==
  \E t \in Tabs :
    /\ home[t].open
    /\ home' = [home EXCEPT ![t] = updateTimer(home[t], localStorage, clock).tab]
    /\ localStorage' = updateTimer(home[t], localStorage, clock).store
    /\ UNCHANGED <<flowVars, formVars, call, ret, clock>>

CountdownNext == AdvanceClock \/ LoadHome \/ TimerTick
CountdownSpec == CountdownInit /\ [][CountdownNext]_vars

(***************************************************************************)
(* Direct calls of the utilities and validators: Init draws one call, its  *)
(* arguments and the store it runs on; the call's action completes it.     *)
(***************************************************************************)
MaxLen == 2

InputChars == {" ", "\t", "7", "a", "@", ".", "-"}
SampleTexts ==
  {<<"a", "@", "b", ".", "c", "o">>,
   <<"0", "2", "1", " ", "1", "2", "3", " ", "4", "5", "6", "7">>,
   <<"1", "0", "1", "0">>,
   <<"1", "2", "3", "4", "5">>,
   <<"1", " ", "M", "a", "i", "n", " ", "S", "t">>,
   <<"A", "n", "n", "e">>,
   <<"4", "1", "1", "1", " ", "1", "1", "1", "1", " ", "1", "1", "1", "1", " ", "1", "1", "1", "1">>,
   <<"1", "2", "/", "3", "0">>,
   <<"0", "1", " ", "/", " ", "2", "0">>,
   <<"1", "2", "3">>,
   <<"1", "2", ".", "5", "0">>,
   <<"5">>,
   <<"1", "0", "0">>,
   <<"0">>,
   <<"-", "1">>,
   <<"9", "9">>,
   <<"4", "1", "1", "1", " ", "1", "1", "1", "1", " ", "1", "1", "1", "1", " ", "1", "1", "1", "2">>,
   <<"4", "1", "1", "1", "-", "1", "1", "1", "1", "-", "1", "1", "1", "1", "-", "1", "1", "1", "1">>,
   <<"1", "2", "/", "3", "6">>,
   <<"0", "1", "/", "3", "7">>,
   <<"1", "0", "/", "2", "6">>,
   <<"1", "1", "/", "2", "6">>,
   <<"1", "3", "/", "3", "0">>,
   <<"1", "/", "3", "0">>,
   <<"1", "a", "2", "3">>,
   <<"1", "2", "3", "4", "5", "-", "6", "7", "8", "9">>}
InputTexts == UNION {[1..n -> InputChars] : n \in 0..MaxLen} \cup SampleTexts
InputValues == {JSString(t) : t \in InputTexts} \cup {JSNull, JSUndefined}

Countries == {"NZ", "AU", "US", "FR", ""}
CardTypes == {"visa", "amex"}
NameFields == {"firstName", "lastName", "cardHolder"}
\* new Date(): the current year and month
Nows ==
  {[year |-> 2026, month |-> 11], [year |-> 2026, month |-> 1],
   [year |-> 2030, month |-> 6]}
\* only validateCardExpiry reads the clock
NowsOf(fn) ==
  IF fn = "validateCardExpiry" THEN Nows ELSE {[year |-> 2026, month |-> 11]}

Validators ==
  {"validateEmail", "validateName", "validatePhone", "validatePostalCode",
   "validateAddress", "validateCity", "validateCardNumber", "validateCardExpiry",
   "validateCVV", "validateCurrency", "validateQuantity"}

\* the second argument each validator is called with ("" when it has none)
OptionsOf(fn) ==
  IF fn = "validateName" THEN NameFields
  ELSE IF fn \in {"validatePhone", "validatePostalCode"} THEN Countries
  ELSE IF fn = "validateCVV" THEN CardTypes
  ELSE {""}

ValidatorCalls ==
  UNION {{[fn |-> fn, arg |-> v, opt |-> o, now |-> n] :
            v \in InputValues, o \in OptionsOf(fn), n \in NowsOf(fn)} : fn \in Validators}

\* card numbers the Luhn check accepts, of 13, 16 and 19 digits, and every
\* text that differs from one of them in one digit
CardNumbers ==
  {<<"4", "1", "1", "1", " ", "1", "1", "1", "1", " ", "1", "1", "1", "1", " ", "1", "1", "1", "1">>,
   <<"6", "0", "1", "1", "0", "0", "0", "9", "9", "0", "1", "3", "9", "4", "2", "4">>,
   <<"4", "2", "2", "2", "2", "2", "2", "2", "2", "2", "2", "2", "2">>,
   <<"6", "3", "0", "4", "9", "5", "0", "6", "0", "0", "0", "0", "0", "0", "0", "0", "0", "0", "7">>}
OneDigitOff(text) ==
  {[text EXCEPT ![i] = d] : i \in {j \in 1..Len(text) : text[j] \in Digits}, d \in Digits}
    \ {text}
CardNumberCalls ==
  {[fn |-> "validateCardNumber", arg |-> JSString(t), opt |-> "", now |-> Today] :
     t \in CardNumbers \cup UNION {OneDigitOff(t) : t \in CardNumbers}}

RowChoices == {[price |-> Dollars(p), qty |-> q] : p \in {1, 600}, q \in 1..MaxQty}
TotalsCalls ==
  {[fn |-> "calculateTotals", cart |-> c, shippingCost |-> sc] :
     c \in UNION {[1..n -> RowChoices] : n \in 0..MaxRows},
     sc \in {0, Dollars(25)}}

Fallbacks == {JSNull, JSNumber(Dollars(7))}
LoadCalls ==
  {[fn |-> "loadFromStorage", key |-> k, fallback |-> f] :
     k \in StorageKeys, f \in Fallbacks}
SaveCalls ==
  {[fn |-> "saveToStorage", key |-> k, data |-> cartCalculateTotals(c, 0)] :
     k \in StorageKeys, c \in [1..1 -> RowChoices]}

\* the ids validateField tells apart, and one it does not
SwitchIds ==
  {"firstName", "lastName", "email", "phone", "postalCode", "address1", "city",
   "country", "cardNumber", "expiry", "cvv", "cardHolder"}
\* calls of validateField: the input's id and value, the country, the value
\* of #cardNumber and whether the input has the required attribute
FieldCalls ==
  UNION {{[fn |-> "validateField", id |-> i, arg |-> JSString(t), opt |-> c,
           card |-> k, required |-> r, now |-> Today] :
            t \in InputTexts,
            c \in IF i \in {"phone", "postalCode"} THEN Countries ELSE {"NZ"},
            k \in IF i = "cvv" THEN {<<>>, <<"4", "1">>, <<"3", "4">>} ELSE {<<>>},
            r \in IF i \in SwitchIds THEN {FALSE} ELSE BOOLEAN} :
         i \in SwitchIds \cup {"address2"}}

\* the fields validateForm is called on: each enabled, disabled or of type
\* hidden, an enabled one with or without an error shown
DrawnFields(id, withId) ==
  UNION {{NewField(v),
          showFieldError(NewField(v), ErrorMessages.required, withId),
          [NewField(v) EXCEPT !.disabled = TRUE],
          [NewField(v) EXCEPT !.type = "hidden"]} :
           v \in {FormattedValue(id, typed) : typed \in TypedValues(id)}}
DrawnForms(withId) ==
  {[cardNumber |-> a, expiry |-> b, cvv |-> c, cardHolder |-> d] :
     a \in DrawnFields("cardNumber", withId), b \in DrawnFields("expiry", withId),
     c \in DrawnFields("cvv", withId), d \in DrawnFields("cardHolder", withId)}
FormCalls == {[fn |-> "validateForm", form |-> "paymentForm"]}

\* validateX(arg, opt), by name
ApplyValidator(c) ==
  CASE c.fn = "validateEmail" -> validateEmail(c.arg)
    [] c.fn = "validateName" -> validateName(c.arg, c.opt)
    [] c.fn = "validatePhone" -> validatePhone(c.arg, c.opt)
    [] c.fn = "validatePostalCode" -> validatePostalCode(c.arg, c.opt)
    [] c.fn = "validateAddress" -> validateAddress(c.arg)
    [] c.fn = "validateCity" -> validateCity(c.arg)
    [] c.fn = "validateCardNumber" -> validateCardNumber(c.arg)
    [] c.fn = "validateCardExpiry" -> validateCardExpiry(c.arg, c.now)
    [] c.fn = "validateCVV" -> validateCVV(c.arg, c.opt)
    [] c.fn = "validateCurrency" -> validateCurrency(c.arg)
    [] c.fn = "validateQuantity" -> validateQuantity(c.arg)

EmptyStore == [k \in StorageKeys |-> NoItem]

CallInit ==
  /\ FlowIdle
  /\ HomeIdle
  /\ ret = [done |-> FALSE]
  /\ \/ call \in FormCalls /\ localStorage = EmptyStore
     \/ call \in ValidatorCalls \cup CardNumberCalls /\ localStorage = EmptyStore
     \/ call \in TotalsCalls /\ localStorage = EmptyStore
     \/ call \in FieldCalls /\ localStorage = EmptyStore
     \/ /\ call \in LoadCalls \cup SaveCalls
        /\ \E prior \in PriorTexts, other \in {NoItem, JSONstringify(cartCalculateTotals(<<>>, 0))} :
             localStorage = [k \in StorageKeys |->
                              IF k = STORAGE_KEYS.totals THEN prior ELSE other]
  /\ IF call.fn = "validateForm"
       THEN /\ form = call.form
            /\ location = PageOf(form)
            /\ errorIds \in BOOLEAN
            /\ fields \in DrawnForms(errorIds)
            /\ focus = "none"
            /\ paymentMethod = "card"
            /\ cardDimmed = FALSE
            /\ cardIcon = ""
            /\ overlay = FALSE
       ELSE FormIdle

\* the pending call is of validator fn: it completes with the validator's result
CallValidator(fn) ==
  /\ call.fn = fn /\ ~ret.done
  /\ ret' = [done |-> TRUE, value |-> ApplyValidator(call)]
  /\ UNCHANGED <<homeVars, flowVars, localStorage, call, formVars>>

CallValidateEmail == CallValidator("validateEmail")
CallValidateName == CallValidator("validateName")
CallValidatePhone == CallValidator("validatePhone")
CallValidatePostalCode == CallValidator("validatePostalCode")
CallValidateAddress == CallValidator("validateAddress")
CallValidateCity == CallValidator("validateCity")
CallValidateCardNumber == CallValidator("validateCardNumber")
CallValidateCardExpiry == CallValidator("validateCardExpiry")
CallValidateCVV == CallValidator("validateCVV")
CallValidateCurrency == CallValidator("validateCurrency")
CallValidateQuantity == CallValidator("validateQuantity")

CallValidateField ==
  /\ call.fn = "validateField" /\ ~ret.done
  /\ ret' = [done |-> TRUE,
             value |-> validateField(call.id, call.arg.chars, call.opt, call.card,
                                     call.required, call.now)]
  /\ UNCHANGED <<homeVars, flowVars, localStorage, call, formVars>>

\* validateForm(form) on the drawn form
CallValidateForm ==
  LET pass == validateForm(fields, FieldsOf(call.form), errorIds)
  IN  /\ call.fn = "validateForm" /\ ~ret.done
      /\ fields' = pass.fields
      /\ focus' = IF pass.firstInvalidField # "none" THEN pass.firstInvalidField ELSE focus
      /\ ret' = [done |-> TRUE, value |-> pass.isValid]
      /\ UNCHANGED <<homeVars, flowVars, localStorage, call, form, location, errorIds,
                     paymentMethod, cardDimmed, cardIcon, overlay>>

CallCalculateTotals ==
  /\ call.fn = "calculateTotals" /\ ~ret.done
  /\ ret' = [done |-> TRUE, value |-> cartCalculateTotals(call.cart, call.shippingCost)]
  /\ UNCHANGED <<homeVars, flowVars, localStorage, call, formVars>>

CallSaveToStorage ==
  /\ call.fn = "saveToStorage" /\ ~ret.done
  /\ localStorage' = saveToStorage(localStorage, call.key, call.data)
  /\ ret' = [done |-> TRUE, value |-> JSUndefined]
  /\ UNCHANGED <<homeVars, flowVars, call, formVars>>

CallLoadFromStorage ==
  /\ call.fn = "loadFromStorage" /\ ~ret.done
  /\ ret' = [done |-> TRUE, value |-> loadFromStorage(localStorage, call.key, call.fallback)]
  /\ UNCHANGED <<homeVars, flowVars, localStorage, call, formVars>>

CallNext ==
  \/ CallValidateEmail \/ CallValidateName \/ CallValidatePhone
  \/ CallValidatePostalCode \/ CallValidateAddress \/ CallValidateCity
  \/ CallValidateCardNumber \/ CallValidateCardExpiry \/ CallValidateCVV
  \/ CallValidateCurrency \/ CallValidateQuantity \/ CallValidateField
  \/ CallValidateForm
  \/ CallCalculateTotals \/ CallSaveToStorage \/ CallLoadFromStorage

CallSpec == CallInit /\ [][CallNext]_vars

(***************************************************************************)
(* Reading the state back, for the properties below.                       *)
(***************************************************************************)
\* the text under cpa_totals
TotalsText == localStorage[STORAGE_KEYS.totals]

\* the number literal of member `name` of the stored object text
StoredNum(name) ==
  LET i == CHOOSE j \in 1..Len(TotalsText.members) : TotalsText.members[j][1] = name
  IN  TotalsText.members[i][2][2]

\* the stored text is that of {subtotal, taxes, shippingCost, total}, all numbers
IsTotalsText ==
  /\ TotalsText.kind = "object"
  /\ Len(TotalsText.members) = Len(TotalsFields)
  /\ \A i \in 1..Len(TotalsFields) :
       /\ TotalsText.members[i][1] = TotalsFields[i]
       /\ TotalsText.members[i][2][1] = "num"

\* a Totals object as the JavaScript value it is
TotalsValue(t) ==
  JSObject(<< <<"subtotal", JSNumber(t.subtotal)>>, <<"taxes", JSNumber(t.taxes)>>,
              <<"shippingCost", JSNumber(t.shippingCost)>>,
              <<"total", JSNumber(t.total)>> >>)

\* the rows as shown: each row's price attribute and selected quantity, as numbers
ShownRows ==
  [i \in 1..Len(cartPrices) |->
    [price |-> Dollars(DecimalValue(cartPrices[i])), qty |-> DecimalValue(cartQty[i])]]

RECURSIVE SumOfRows(_)
SumOfRows(rows) ==
  IF rows = <<>> THEN 0
  ELSE SumOfRows(SubSeq(rows, 1, Len(rows) - 1))
       + rows[Len(rows)].price * rows[Len(rows)].qty

\* C1: every Totals record under cpa_totals written by the cart or the shipping
\* page has total = subtotal + taxes + shippingCost and taxes = subtotal * 13/600.
C1_StoredTotalsInvariant ==
  page # "none" =>
    /\ IsTotalsText
    /\ StoredNum("total") = StoredNum("subtotal") + StoredNum("taxes")
                            + StoredNum("shippingCost")
    /\ StoredNum("taxes") * TAX_DEN = StoredNum("subtotal") * TAX_NUM

\* C1 witness: the shipping page, loaded after the cart, has stored a paid option
C1_Witness ==
  /\ page = "shipping"
  /\ storedTotals.type = "object"
  /\ checked = "shipNext"
  /\ StoredNum("shippingCost") > 0
  /\ StoredNum("subtotal") = Dollars(2)

\* C2: with a subtotal over 600 the free option is the checked one, the other
\* option is disabled and the stored shippingCost is the free option's cost; a
\* subtotal of exactly 600 leaves the other option enabled.
C2_FreeShippingForced ==
  page = "shipping" =>
    /\ subtotal > Dollars(600) =>
         /\ checked = "shipFree"
         /\ nextDisabled /\ nextDimmed
         /\ IsTotalsText
         /\ StoredNum("shippingCost") = Number(shipCostAttr.shipFree).value
    /\ subtotal = Dollars(600) => ~nextDisabled /\ ~nextDimmed

\* C2 witness: a subtotal of 601 on the shipping page
C2_Witness ==
  /\ page = "shipping"
  /\ subtotal = Dollars(601)
  /\ checked = "shipFree"
  /\ nextDisabled

\* C3: with a subtotal of at most 600 every option stays enabled and the
\* shippingCost rendered and stored is the checked option's cost attribute.
C3_BelowThreshold ==
  (page = "shipping" /\ subtotal <= Dollars(600)) =>
    /\ ~nextDisabled /\ ~nextDimmed
    /\ checked # "none" =>
         LET cost == Number(shipCostAttr[checked]).value
         IN  /\ IsTotalsText
             /\ StoredNum("shippingCost") = cost
             /\ StoredNum("total") = subtotal + StoredNum("taxes") + cost
             /\ shipView.shipping = IF cost = 0 THEN FREE ELSE formatCurrency(cost)

\* C3 witness: the paid option chosen at a subtotal of exactly 600
C3_Witness ==
  /\ page = "shipping"
  /\ subtotal = Dollars(600)
  /\ checked = "shipNext"
  /\ StoredNum("shippingCost") = Number(shipCostAttr.shipNext).value
  /\ StoredNum("shippingCost") > 0

C6_CartTotalsFresh ==
  page = "cart" =>
    LET sum == SumOfRows(ShownRows)
    IN  /\ IsTotalsText
        /\ StoredNum("subtotal") = sum
        /\ StoredNum("taxes") * TAX_DEN = sum * TAX_NUM
        /\ StoredNum("shippingCost") = 0
        /\ StoredNum("total") = sum + StoredNum("taxes")
        /\ cartView.subtotal = formatCurrency(sum)
        /\ cartView.shipping = FREE

\* C6 witness: a quantity changed away from the default on the cart page
C6_Witness ==
  /\ page = "cart"
  /\ Len(cartQty) = 2
  /\ cartQty[2] = <<"2">>
  /\ StoredNum("subtotal") = Dollars(1201)

\* C7: what the cart page persisted is what loadFromStorage gives back, and on
\* the step to the shipping page the subtotal and taxes used, rendered and
\* stored again are those the cart page computed.
C7_RoundTrip ==
  [][LET T == cartCalculateTotals(readCartFromDOM(cartPrices, cartQty), 0)
     IN  page = "cart" =>
           /\ loadFromStorage(localStorage, STORAGE_KEYS.totals, JSNull)
                = [threw |-> FALSE, value |-> TotalsValue(T)]
           /\ page' = "shipping" =>
                /\ storedTotals' = TotalsValue(T)
                /\ subtotal' = T.subtotal
                /\ localStorage'[STORAGE_KEYS.totals].members[1]
                     = <<"subtotal", <<"num", T.subtotal>> >>
                /\ localStorage'[STORAGE_KEYS.totals].members[2]
                     = <<"taxes", <<"num", T.taxes>> >>
                /\ shipView'.subtotal = cartView.subtotal
                /\ shipView'.taxes = cartView.taxes]_vars

\* C7 witness: the shipping page holds the cart's totals, taxes not a whole cent
C7_Witness ==
  /\ page = "shipping"
  /\ storedTotals = TotalsValue([subtotal |-> Dollars(601),
                                 taxes |-> TimesTaxRate(Dollars(601)),
                                 shippingCost |-> 0,
                                 total |-> Dollars(601) + TimesTaxRate(Dollars(601))])
  /\ subtotal = Dollars(601)
  /\ StoredNum("taxes") = TimesTaxRate(Dollars(601))

\* C9 (as claimed): loaded with no prior totals in storage, the shipping page
\* uses the value parsed from its placeholder text, whatever the text.
C9_PlaceholderAlways ==
  [][(page' = "shipping" /\ TotalsText = NoItem) =>
       subtotal' = parseCurrency(placeholder)]_vars

\* C9 (amended): loaded with no prior totals in storage, the shipping page uses
\* the value parsed from its placeholder text when that is not 0, and 600 when
\* it is 0; the subtotal stays the same for as long as the page is shown.
C9_PlaceholderOrDefault ==
  [][/\ (page' = "shipping" /\ TotalsText = NoItem) =>
          /\ parseCurrency(placeholder) # 0 => subtotal' = parseCurrency(placeholder)
          /\ parseCurrency(placeholder) = 0 => subtotal' = Dollars(600)
          /\ localStorage'[STORAGE_KEYS.totals].members[1]
               = <<"subtotal", <<"num", subtotal'>> >>
     /\ (page = "shipping" /\ page' = "shipping") =>
          /\ subtotal' = subtotal
          /\ localStorage'[STORAGE_KEYS.totals].members[1]
               = <<"subtotal", <<"num", subtotal>> >>]_vars

\* C9 witness: no prior totals, a placeholder of "$0", the subtotal 600
C9_Witness ==
  /\ page = "shipping"
  /\ storedTotals = JSNull
  /\ placeholder = <<"$", "0">>
  /\ subtotal = Dollars(600)
  /\ checked = "shipNext"

\* C5: calculateTotals gives subtotal = the sum of price * quantity over the
\* line items, taxes = subtotal * 13/600 and total = subtotal + taxes +
\* shippingCost, whatever the items and the shipping cost; one item of price
\* 600 and quantity 1 with shipping 0 gives 600, 13, 0, 613.
C5_ComputeTotals ==
  (call.fn = "calculateTotals" /\ ret.done) =>
    LET sum == SumOfRows(call.cart)
        r == ret.value
    IN  /\ DOMAIN r = {"subtotal", "taxes", "shippingCost", "total"}
        /\ r.subtotal = sum
        /\ r.taxes * TAX_DEN = sum * TAX_NUM
        /\ r.shippingCost = call.shippingCost
        /\ r.total = sum + r.taxes + call.shippingCost
        /\ (call.cart = <<[price |-> Dollars(600), qty |-> 1]>> /\ call.shippingCost = 0) =>
             r = [subtotal |-> Dollars(600), taxes |-> Dollars(13),
                  shippingCost |-> 0, total |-> Dollars(613)]

\* C5 witness: two line items and a shipping cost of 25
C5_Witness ==
  /\ call.fn = "calculateTotals" /\ ret.done
  /\ call.cart = <<[price |-> Dollars(600), qty |-> 2], [price |-> Dollars(1), qty |-> 1]>>
  /\ call.shippingCost = Dollars(25)
  /\ ret.value.subtotal = Dollars(1201)
  /\ ret.value.total = Dollars(1226) + TimesTaxRate(Dollars(1201))

\* C8: loadFromStorage never throws and never writes the store; it returns the
\* fallback when the key is absent or its text is not valid JSON, and the
\* parsed value when the text is valid JSON.
C8_LoadNeverThrows ==
  [][(call.fn = "loadFromStorage" /\ ret'.done) =>
       LET raw == localStorage[call.key]
           absent == raw.kind = "none"
           validJSON == ~absent /\ ~JSONparse(raw).threw
       IN  /\ localStorage' = localStorage
           /\ ~ret'.value.threw
           /\ validJSON => ret'.value.value = JSONparse(raw).value
           /\ ~validJSON => ret'.value.value = call.fallback]_vars

\* C8 witness: corrupt text under the key, a fallback that is not null returned
C8_Witness ==
  /\ call.fn = "loadFromStorage" /\ ret.done
  /\ localStorage[call.key] = PlainText(<<"{", "o", "o", "p", "s">>)
  /\ call.fallback = JSNumber(Dollars(7))
  /\ ret.value = [threw |-> FALSE, value |-> call.fallback]

\* C10 (as claimed): every validator answers an input that is empty or only
\* white space with invalid and 'This field is required', whatever the
\* country, card type or field.
C10_BlankIsRequired ==
  (call.fn \in Validators /\ ret.done
     /\ call.arg.type = "string" /\ AllIn(call.arg.chars, WhiteSpace)) =>
    ret.value = [valid |-> FALSE, message |-> "This field is required"]

(***************************************************************************)
(* The validators' contracts (CallSpec).                                   *)
(***************************************************************************)
\* the text without its white space
NoSpaces(text) == SelectSeq(text, LAMBDA c : c \notin WhiteSpace)

\* C11: validateCardNumber accepts an input iff, with its white space
\* stripped, it consists only of digits, has 13 to 19 of them and passes the
\* Luhn checksum.
C11_CardNumberAccepts ==
  (call.fn = "validateCardNumber" /\ ret.done /\ call.arg.type = "string") =>
    LET t == NoSpaces(call.arg.chars)
    IN  ret.value.valid <=>
          /\ AllIn(t, Digits)
          /\ Len(t) \in 13..19
          /\ LuhnSum(t, Len(t), FALSE) % 10 = 0

\* the month and the year 2000 + YY an MM/YY text names
ExpiryMonth(text) == DecimalValue(SubSeq(NoSpaces(text), 1, 2))
ExpiryYear(text) == 2000 + DecimalValue(SubSeq(NoSpaces(text), 4, 5))

\* the verdict on a well-formed expiry text whose date is past, beyondLimit
\* or neither
ExpiryVerdict(past, beyondLimit) ==
  IF past THEN [valid |-> FALSE, message |-> ErrorMessages.cardExpiryPast]
  ELSE IF beyondLimit THEN [valid |-> FALSE, message |-> ErrorMessages.cardExpiry]
  ELSE [valid |-> TRUE, message |-> ""]

\* a validateCardExpiry call on a text that is not blank has returned
ExpiryCallDone ==
  /\ call.fn = "validateCardExpiry" /\ ret.done
  /\ call.arg.type = "string" /\ Trim(call.arg.chars) # <<>>

\* C12 as stated: a well-formed MM/YY text is rejected as expired iff its
\* (year, month) is before the current one, rejected with the format message
\* iff its date is more than 10 years (120 months) after the current month,
\* and valid otherwise; any other text fails with the format message.
C12_TenYearsByDate ==
  ExpiryCallDone =>
    IF MatchesCardExpiry(call.arg.chars)
      THEN LET y == ExpiryYear(call.arg.chars)
               m == ExpiryMonth(call.arg.chars)
           IN  ret.value =
                 ExpiryVerdict(y < call.now.year \/ (y = call.now.year /\ m < call.now.month),
                               12 * (y - call.now.year) + (m - call.now.month) > 120)
      ELSE ret.value = [valid |-> FALSE, message |-> ErrorMessages.cardExpiry]

\* C12 amended: as above, with the format message iff the year 2000 + YY is
\* greater than the current year plus 10, whatever the months.
C12_TenYearsByYear ==
  ExpiryCallDone =>
    IF MatchesCardExpiry(call.arg.chars)
      THEN LET y == ExpiryYear(call.arg.chars)
               m == ExpiryMonth(call.arg.chars)
           IN  ret.value =
                 ExpiryVerdict(y < call.now.year \/ (y = call.now.year /\ m < call.now.month),
                               y > call.now.year + 10)
      ELSE ret.value = [valid |-> FALSE, message |-> ErrorMessages.cardExpiry]

\* "10/26" read in November 2026 has been rejected as expired
C12_Witness ==
  /\ ExpiryCallDone
  /\ call.arg.chars = <<"1", "0", "/", "2", "6">>
  /\ call.now = [year |-> 2026, month |-> 11]
  /\ ret.value = [valid |-> FALSE, message |-> ErrorMessages.cardExpiryPast]

\* the text is an integer numeral: digits behind an optional sign, white
\* space around it allowed
IsIntegerText(text) ==
  LET t == Trim(text)
      ds == IF t # <<>> /\ Head(t) \in {"+", "-"} THEN Tail(t) ELSE t
  IN  ds # <<>> /\ AllIn(ds, Digits)

\* C13: validateQuantity is valid iff the input is an integer q with
\* 1 <= q <= 99; q > 99 fails with the maximum message, q < 1 or a
\* non-integer input with the quantity message.
C13_QuantityInteger ==
  (call.fn = "validateQuantity" /\ ret.done
     /\ call.arg.type = "string" /\ call.arg.chars # <<>>) =>
    IF ~IsIntegerText(call.arg.chars)
      THEN ret.value = [valid |-> FALSE, message |-> ErrorMessages.quantity]
    ELSE LET q == parseInt(call.arg.chars).value
         IN  ret.value =
               IF q < 1 THEN [valid |-> FALSE, message |-> ErrorMessages.quantity]
               ELSE IF q > 99 THEN [valid |-> FALSE, message |-> ErrorMessages.quantityMax]
               ELSE [valid |-> TRUE, message |-> ""]

\* C14: on an input that is not blank, validatePostalCode is valid iff the
\* trimmed input is 4 digits (NZ, AU), 5 digits or 5 digits, a hyphen and 4
\* digits (US), and always for any other country; a failure carries the
\* selected country's message.
C14_PostalCodeByCountry ==
  (call.fn = "validatePostalCode" /\ ret.done
     /\ call.arg.type = "string" /\ Trim(call.arg.chars) # <<>>) =>
    LET t == Trim(call.arg.chars)
        digitsAt(a, b) == \A i \in a..b : t[i] \in Digits
        expected ==
          IF call.opt \in {"NZ", "AU"} THEN Len(t) = 4 /\ digitsAt(1, 4)
          ELSE IF call.opt = "US"
            THEN \/ Len(t) = 5 /\ digitsAt(1, 5)
                 \/ Len(t) = 10 /\ digitsAt(1, 5) /\ t[6] = "-" /\ digitsAt(7, 10)
          ELSE TRUE
    IN  /\ ret.value.valid = expected
        /\ ~expected => ret.value.message = ErrorMessages.postalCode[call.opt]

\* the NZ code "1010" has been rejected for US, with the US message
C14_Witness ==
  /\ call.fn = "validatePostalCode" /\ ret.done
  /\ call.arg = JSString(<<"1", "0", "1", "0">>) /\ call.opt = "US"
  /\ ret.value = [valid |-> FALSE, message |-> ErrorMessages.postalCode.US]

\* C15: validateCVV gives the same result for every card type, and the
\* result is valid iff the input is 3 or 4 digits.
C15_CVVIgnoresCardType ==
  (call.fn = "validateCVV" /\ ret.done /\ call.arg.type = "string") =>
    /\ \A t \in CardTypes : validateCVV(call.arg, t) = ret.value
    /\ ret.value.valid <=>
          (Len(Trim(call.arg.chars)) \in 3..4 /\ AllIn(Trim(call.arg.chars), Digits))

\* C16: every result of a validator, and of validateField, has an empty
\* message when it is valid and a non-empty one when it is not.
C16_MessageIffInvalid ==
  (call.fn \in Validators \cup {"validateField"} /\ ret.done) =>
    (ret.value.valid <=> ret.value.message = "")

\* validateName has rejected a card holder's name, with the card holder message
C16_Witness ==
  /\ call.fn = "validateName" /\ ret.done
  /\ call.opt = "cardHolder"
  /\ ret.value = [valid |-> FALSE, message |-> ErrorMessages.cardHolder]

(***************************************************************************)
(* The forms' contracts.                                                   *)
(***************************************************************************)
\* the field carries an error annotation: a visible message, the error class
\* and aria-invalid = 'true'
ErrorShown(f) == ~f.hidden /\ f.text # "" /\ f.red /\ f.invalid = "true"

\* the field carries no part of an error annotation
ErrorCleared(f) == f.hidden /\ ~f.red /\ f.invalid = "false"

\* the fields of fs that a whole-form pass checks and that fail their validator
FailingFields(fs) ==
  {id \in DOMAIN fs :
     /\ ~fs[id].disabled /\ fs[id].type # "hidden"
     /\ ~FieldResult(fs, id, getCountry(fs)).valid}

\* the first field of order that is in the set ids
FirstOf(order, ids) ==
  order[CHOOSE i \in 1..Len(order) :
          order[i] \in ids /\ \A j \in 1..(i - 1) : order[j] \notin ids]

\* C17: validateForm returns true iff every enabled, non-hidden field passes
\* its validator; afterwards a field carries an error annotation iff it was
\* checked and failed, a checked field that passed has its annotation
\* cleared, and when a field failed the focus is on the first failing field
\* in document order.
C17_WholeFormPass ==
  [][(call.fn = "validateForm" /\ ~ret.done /\ ret'.done) =>
       LET failing == FailingFields(fields)
       IN  /\ ret'.value = (failing = {})
           /\ \A id \in DOMAIN fields :
                /\ ErrorShown(fields'[id]) <=> id \in failing
                /\ (~fields[id].disabled /\ fields[id].type # "hidden" /\ id \notin failing)
                     => ErrorCleared(fields'[id])
           /\ failing # {} => focus' = FirstOf(FieldsOf(call.form), failing)]_vars

\* a pass has failed on a form whose first field is disabled and empty, a
\* later field shows the error and has the focus
C17_Witness ==
  /\ call.fn = "validateForm" /\ ret.done /\ ~ret.value
  /\ fields["cardNumber"].disabled /\ fields["cardNumber"].value = <<>>
  /\ ~ErrorShown(fields["cardNumber"])
  /\ focus = "cvv" /\ ErrorShown(fields["cvv"])
  /\ ErrorCleared(fields["expiry"])

\* the verdict of field id's validator on its value in fs, run with country
Rejects(fs, id, country) == ~FieldResult(fs, id, country).valid

\* C18 as stated: after a blur event the field carries an error annotation
\* iff its validator, run with the value of the country select, rejects the
\* field's value; no other field changes.
C18_BlurWithSelectedCountry ==
  [][\A id \in DOMAIN fields :
       (form = "shippingForm" /\ BlurOf(id)) =>
         /\ ErrorShown(fields'[id])
              <=> Rejects(fields, id, CodeOf(fields["country"].value))
         /\ \A other \in DOMAIN fields \ {id} : fields'[other] = fields[other]]_vars

\* C18 amended: as above, the validator being run with NZ while no country
\* is selected.
C18_BlurWithCountryOrNZ ==
  [][\A id \in DOMAIN fields :
       (form = "shippingForm" /\ BlurOf(id)) =>
         LET country == IF fields["country"].value = <<>> THEN "NZ"
                        ELSE CodeOf(fields["country"].value)
         IN  /\ ErrorShown(fields'[id]) <=> Rejects(fields, id, country)
             /\ ~Rejects(fields, id, country) => ErrorCleared(fields'[id])
             /\ \A other \in DOMAIN fields \ {id} : fields'[other] = fields[other]]_vars

\* with US selected and no submit made, the NZ code "1010" shows the US
\* message and the empty first name the required message
C18_Witness ==
  /\ form = "shippingForm" /\ focus = "none"
  /\ fields["country"].value = CountryText.US
  /\ fields["postalCode"].value = <<"1", "0", "1", "0">>
  /\ ErrorShown(fields["postalCode"])
  /\ fields["postalCode"].text = ErrorMessages.postalCode.US
  /\ ErrorShown(fields["firstName"])
  /\ fields["firstName"].text = ErrorMessages.required

\* C19: an input event on a field that shows an error leaves the message
\* hidden, the error class absent, aria-invalid 'false' and aria-describedby
\* removed.
C19_InputRemovesAnnotation ==
  [][\A id \in DOMAIN fields \ {"country"} : \A typed \in TypedValues(id) :
       (InputOf(id, typed) /\ ErrorShown(fields[id])) =>
         /\ fields'[id].hidden
         /\ ~fields'[id].red
         /\ fields'[id].invalid = "false"
         /\ ~fields'[id].describedBy]_vars

\* C20: a change of the country re-validates the postal code and the phone
\* against the new country, each only when it has a value, and leaves every
\* value, the annotation of every other field and the store as they were.
C20_CountryChange ==
  [][\A c \in CountryOptions :
       SelectCountryTo(c) =>
         /\ \A id \in {"postalCode", "phone"} :
              IF fields[id].value = <<>> THEN fields'[id] = fields[id]
              ELSE /\ fields'[id].value = fields[id].value
                   /\ ErrorShown(fields'[id]) <=> Rejects(fields, id, CodeOf(c))
                   /\ ~Rejects(fields, id, CodeOf(c)) => ErrorCleared(fields'[id])
         /\ \A other \in DOMAIN fields \ {"postalCode", "phone", "country"} :
              fields'[other] = fields[other]
         /\ fields'["country"].value = c
         /\ localStorage' = localStorage]_vars

\* with US selected the NZ-valid "1010" and the NZ phone number both show the
\* US messages, and the first name is as the page first showed it
C20_Witness ==
  /\ form = "shippingForm"
  /\ fields["country"].value = CountryText.US
  /\ fields["postalCode"].value = <<"1", "0", "1", "0">>
  /\ ErrorShown(fields["postalCode"])
  /\ fields["postalCode"].text = ErrorMessages.postalCode.US
  /\ fields["phone"].value # <<>>
  /\ ErrorShown(fields["phone"])
  /\ fields["phone"].text = ErrorMessages.phone.US
  /\ fields["firstName"] = NewField(<<"A", "n", "n", "e">>)
\* C21: a submit of the shipping form writes the form's field values to
\* cpa_shipping and navigates to the payment page iff every field passes its
\* validator; otherwise no storage key changes and the page stays.
C21_ShippingSubmit ==
  [][SubmitShipping =>
       IF FailingFields(fields) = {}
         THEN /\ location' = "payment.html"
              /\ localStorage' =
                   [localStorage EXCEPT !["cpa_shipping"] =
                      JSONstringify([entries |->
                        [i \in 1..Len(ShippingFields) |->
                           <<ShippingFields[i], fields[ShippingFields[i]].value>>]])]
       ELSE /\ location' = location
            /\ localStorage' = localStorage]_vars

\* a submit has saved the four values and navigated; the totals are as the
\* shipping page left them
C21_Witness ==
  /\ form = "shippingForm" /\ location = "payment.html"
  /\ localStorage["cpa_shipping"] # NoItem
  /\ localStorage["cpa_shipping"] # SavedShipping
  /\ localStorage[STORAGE_KEYS.totals] = SavedTotals
  /\ fields["postalCode"].value = <<"1", "0", "1", "0">>
  /\ \A id \in DOMAIN fields : ~ErrorShown(fields[id])

\* C22: a submit of the payment form shows the overlay only if PayPal is
\* the selected method, or the card method is selected and every enabled
\* field passes; with the card method selected and an enabled field failing,
\* no overlay is added and cpa_totals, cpa_cart and cpa_shipping stay as
\* they were.
C22_PaymentSubmit ==
  [][SubmitPayment =>
       /\ (overlay' /\ ~overlay) =>
            (paymentMethod = "paypal"
               \/ (paymentMethod = "card" /\ FailingFields(fields) = {}))
       /\ (paymentMethod = "card" /\ FailingFields(fields) # {}) =>
            /\ overlay' = overlay
            /\ \A k \in {STORAGE_KEYS.totals, STORAGE_KEYS.cart, "cpa_shipping"} :
                 localStorage'[k] = localStorage[k]]_vars

\* a card submit has failed on the empty CVV: no overlay, the keys of the
\* earlier pages still stored
C22_Witness ==
  /\ form = "paymentForm" /\ paymentMethod = "card" /\ ~overlay
  /\ focus = "cvv" /\ ErrorShown(fields["cvv"])
  /\ fields["cardNumber"].value # <<>> /\ ~ErrorShown(fields["cardNumber"])
  /\ localStorage[STORAGE_KEYS.totals] = SavedTotals
  /\ localStorage["cpa_shipping"] = SavedShipping

\* C23: while the payment overlay is shown, cpa_totals, cpa_cart and
\* cpa_shipping are absent from the store; a shipping page loaded from there
\* sees no prior totals.
C23_OverlayClearsKeys ==
  [][/\ overlay' =>
          \A k \in {STORAGE_KEYS.totals, STORAGE_KEYS.cart, "cpa_shipping"} :
            localStorage'[k] = NoItem
     /\ (overlay /\ page' = "shipping") =>
          /\ storedTotals' = JSNull
          /\ subtotal' = fallbackSubtotal(placeholder)]_vars

\* the shipping page has been loaded after a payment: it found no totals
\* and has saved its own, and the shipping details are gone
C23_Witness ==
  /\ page = "shipping" /\ form = "none"
  /\ storedTotals = JSNull
  /\ localStorage[STORAGE_KEYS.totals] # NoItem
  /\ localStorage["cpa_shipping"] = NoItem

\* C24: on the payment page the card fields are disabled iff the selected
\* method is not 'card', and no disabled card field carries an error
\* annotation; with 'card' selected again a submit validates all four.
C24_CardFieldsFollowMethod ==
  /\ [](form = "paymentForm" =>
          \A id \in FieldIds("paymentForm") :
            /\ fields[id].disabled <=> paymentMethod # "card"
            /\ fields[id].disabled =>
                 (fields[id].hidden /\ ~fields[id].red /\ fields[id].invalid # "true"))
  /\ [][(SubmitPayment /\ paymentMethod = "card") =>
          \A id \in FieldIds("paymentForm") :
            ErrorShown(fields'[id]) <=> Rejects(fields, id, "NZ")]_vars

\* PayPal is selected after a card submit had failed: the four fields are
\* disabled and dimmed and none shows an error
C24_Witness ==
  /\ form = "paymentForm" /\ paymentMethod = "paypal" /\ cardDimmed
  /\ focus = "cardNumber"
  /\ \A id \in FieldIds("paymentForm") :
       fields[id].disabled /\ ErrorCleared(fields[id]) /\ ~fields[id].describedBy

\* C25: for every card number validateCardNumber accepts, every text that
\* differs from it in exactly one digit is rejected.
C25_LuhnSingleDigit ==
  (call.fn = "validateCardNumber" /\ ret.done /\ call.arg.type = "string") =>
    /\ ret.value.valid =>
         \A v \in OneDigitOff(call.arg.chars) : ~validateCardNumber(JSString(v)).valid
    /\ (\E t \in CardNumbers :
          call.arg.chars \in OneDigitOff(t) /\ validateCardNumber(JSString(t)).valid)
         => ~ret.value.valid

\* a 16-digit number with varied digits has been accepted
C25_Witness ==
  /\ call.fn = "validateCardNumber" /\ ret.done /\ ret.value.valid
  /\ call.arg = JSString(<<"6", "0", "1", "1", "0", "0", "0", "9", "9", "0", "1", "3", "9", "4", "2", "4">>)

\* C26: for every input string, validateQuantity is valid iff the string
\* matches the quantity pattern and its value is at most 99.
C26_QuantityMatchesPattern ==
  (call.fn = "validateQuantity" /\ ret.done /\ call.arg.type = "string") =>
    (ret.value.valid <=>
       (MatchesQuantity(call.arg.chars) /\ DecimalValue(call.arg.chars) <= 99))

\* the deadline the countdown key holds: [none, at]
StoredDeadline(store) ==
  LET stored == store[COUNTDOWN_KEY]
  IN  IF stored.kind = "text" /\ stored.chars # <<>> /\ ~parseInt(stored.chars).nan
        THEN [none |-> FALSE, at |-> parseInt(stored.chars).value]
      ELSE [none |-> TRUE, at |-> 0]

\* C27 amended: a load of the home page reuses a stored deadline that is
\* strictly in the future and leaves it stored, and stores now + 24 hours
\* only when the stored one is absent, unparsable or reached; a timer tick
\* stores now + 24 hours only when the deadline of its own page is reached;
\* the stored deadline never decreases and is never more than 24 hours after
\* the current time.
C27_DeadlinePersists ==
  /\ [](~StoredDeadline(localStorage).none =>
          StoredDeadline(localStorage).at <= clock + COUNTDOWN_DURATION)
  /\ [][/\ \A t \in Tabs :
            LoadHomeIn(t) =>
              IF ~StoredDeadline(localStorage).none /\ StoredDeadline(localStorage).at > clock
                THEN /\ localStorage' = localStorage
                     /\ home'[t].endTime = StoredDeadline(localStorage).at
              ELSE /\ StoredDeadline(localStorage').at = clock + COUNTDOWN_DURATION
                   /\ home'[t].endTime = clock + COUNTDOWN_DURATION
        /\ localStorage' # localStorage =>
             \/ StoredDeadline(localStorage).none
             \/ StoredDeadline(localStorage).at <= clock
             \/ \E t \in Tabs : home[t].open /\ home[t].endTime <= clock
        /\ ~StoredDeadline(localStorage).none =>
             /\ ~StoredDeadline(localStorage').none
             /\ StoredDeadline(localStorage').at >= StoredDeadline(localStorage).at]_vars

\* C27 as stated: as above, and the stored deadline is replaced only when it
\* is absent, unparsable or reached.
C27_ReplacedOnlyWhenReached ==
  /\ C27_DeadlinePersists
  /\ [][localStorage' # localStorage =>
          \/ StoredDeadline(localStorage).none
          \/ StoredDeadline(localStorage).at <= clock]_vars

\* the first tab's countdown has run out and been restarted; the second tab,
\* loaded eight hours later, shows the restarted deadline
C27_Witness ==
  /\ clock = 5
  /\ StoredDeadline(localStorage) = [none |-> FALSE, at |-> 7]
  /\ home[1] = [open |-> TRUE, endTime |-> 7, shown |-> 0]
  /\ home[2] = [open |-> TRUE, endTime |-> 7, shown |-> 2]

\* C28: after a change of the country, for every option of the select, the
\* postal code and the phone show an error iff a blur of the field, or a
\* submit, on the same values and the same selection would show one.
C28_CountryChangeAgreesWithBlur ==
  [][\A c \in CountryOptions :
       SelectCountryTo(c) =>
         \A id \in {"postalCode", "phone"} :
           fields[id].value # <<>> =>
             /\ ErrorShown(fields'[id])
                  <=> ErrorShown(blurHandler(fields', id, errorIds))
             /\ ErrorShown(fields'[id])
                  <=> ErrorShown(validateForm(fields', ShippingFields, errorIds).fields[id])]_vars

====
